---- MODULE Spec2Model ----
(***************************************************************************)
(* Model of the fuzzer of fuzzy-yaak: the substitution engine              *)
(* (src-web/components/fuzzer/runFuzzer.ts) and the run handlers of the    *)
(* two fuzzer panes (FuzzerLayout.tsx, Fuzzer/FuzzerPane.tsx).             *)
(*                                                                         *)
(* A JavaScript string is modelled as a sequence of one-character strings. *)
(***************************************************************************)
EXTENDS Integers, Sequences, FiniteSets, TLC

\* ------------------------------------------------------------------------
\* Bounds of the model
\* ------------------------------------------------------------------------
MaxLen == 4

MaxOff == 5

MaxMarkers == 2

MaxWordLen == 2

\* ------------------------------------------------------------------------
\* JavaScript string primitives
\* ------------------------------------------------------------------------
\* No request: the null of HttpRequest | null and of a variable not yet set.
NoRequest == [model |-> "none"]

\* No backend command.
NoCall == [command |-> "none"]

\* No earlier run of the engine.
NoRun == [sendLog |-> <<>>, results |-> <<>>, outcomes |-> <<>>,
          sampled |-> <<>>, calls |-> <<>>, ended |-> FALSE]

Min(a, b) == IF a < b THEN a ELSE b

Max(a, b) == IF a < b THEN b ELSE a

\* String.prototype.substring(a, b): both indices are clamped to
\* [0, length] and swapped when a > b.
Clamp(n, len) == IF n < 0 THEN 0 ELSE IF n > len THEN len ELSE n

substring(s, a, b) ==
  LET x == Clamp(a, Len(s))
      y == Clamp(b, Len(s))
  IN  SubSeq(s, Min(x, y) + 1, Max(x, y))

\* String.prototype.substring(a): from a to the end of the string.
substringFrom(s, a) == substring(s, a, Len(s))

\* ------------------------------------------------------------------------
\* applyMarkers (runFuzzer.ts:36-43)
\* ------------------------------------------------------------------------
RECURSIVE InsertDesc(_, _)
\* Position of m in a list already sorted by start descending: after every
\* element whose start is >= m.start (Array.prototype.sort is stable).
InsertDesc(sorted, m) ==
  IF sorted = <<>> THEN <<m>>
  ELSE IF Head(sorted).start >= m.start
       THEN <<Head(sorted)>> \o InsertDesc(Tail(sorted), m)
       ELSE <<m>> \o sorted

RECURSIVE InsertAsc(_, _)
InsertAsc(sorted, m) ==
  IF sorted = <<>> THEN <<m>>
  ELSE IF Head(sorted).start <= m.start
       THEN <<Head(sorted)>> \o InsertAsc(Tail(sorted), m)
       ELSE <<m>> \o sorted

RECURSIVE SortAsc(_)
\* The same markers sorted by start ascending: the order the comparator
\* (a, b) => a.start - b.start would give.
SortAsc(ms) ==
  IF ms = <<>> THEN <<>>
  ELSE InsertAsc(SortAsc(SubSeq(ms, 1, Len(ms) - 1)), ms[Len(ms)])

RECURSIVE SortDesc(_)
SortDesc(ms) ==
  IF ms = <<>> THEN <<>>
  ELSE InsertDesc(SortDesc(SubSeq(ms, 1, Len(ms) - 1)), ms[Len(ms)])

sortedMarkers_ascending(ms) == SortAsc(ms)

\* [...markers].sort((a, b) => b.start - a.start)
sortedMarkers(ms) == SortDesc(ms)

\* One pass of the loop body of applyMarkers.
replaceSpan(text, marker, word) ==
  substring(text, 0, marker.start) \o word \o substringFrom(text, marker.end)

RECURSIVE applyInOrder(_, _, _)
\* The for-loop of applyMarkers over an already ordered list.
applyInOrder(text, ordered, word) ==
  IF ordered = <<>> THEN text
  ELSE applyInOrder(replaceSpan(text, Head(ordered), word), Tail(ordered), word)

applyMarkers(text, ms, word) == applyInOrder(text, sortedMarkers(ms), word)

\* ------------------------------------------------------------------------
\* split, join, trim
\* ------------------------------------------------------------------------
NL == "\n"

COLON == ":"

\* The white space String.prototype.trim removes, as far as it occurs in
\* the texts of the model.
WhiteSpace == {" ", "\t", "\r", NL}

RECURSIVE split(_, _)
\* String.prototype.split(sep) for a one-character separator: the pieces
\* between the separators, <<"">> for the empty string.
split(s, sep) ==
  IF \A k \in 1..Len(s) : s[k] # sep THEN <<s>>
  ELSE LET k == CHOOSE k \in 1..Len(s) :
                  s[k] = sep /\ \A j \in 1..(k - 1) : s[j] # sep
       IN  <<SubSeq(s, 1, k - 1)>> \o split(SubSeq(s, k + 1, Len(s)), sep)

RECURSIVE join(_, _)
\* Array.prototype.join(sep)
join(parts, sep) ==
  IF parts = <<>> THEN <<>>
  ELSE IF Len(parts) = 1 THEN parts[1]
  ELSE parts[1] \o <<sep>> \o join(Tail(parts), sep)

RECURSIVE trimStart(_)
trimStart(s) ==
  IF s # <<>> /\ Head(s) \in WhiteSpace THEN trimStart(Tail(s)) ELSE s

RECURSIVE trimEnd(_)
trimEnd(s) ==
  IF s # <<>> /\ s[Len(s)] \in WhiteSpace
  THEN trimEnd(SubSeq(s, 1, Len(s) - 1)) ELSE s

\* String.prototype.trim
trim(s) == trimEnd(trimStart(s))

\* ------------------------------------------------------------------------
\* parseHeaders (runFuzzer.ts:45-61)
\* ------------------------------------------------------------------------
\* The callback of .map returns null (line dropped by .filter) for a line
\* without a colon or with an empty trimmed name.
headerLineKept(line) ==
  LET parts == split(line, COLON)
  IN  Len(parts) >= 2 /\ trim(parts[1]) # <<>>

headerOfLine_secondPartOnly(line, id) ==
  LET parts == split(line, COLON)
  IN  [name |-> trim(parts[1]),
       value |-> trim(parts[2]),
       enabled |-> TRUE,
       id |-> id]

\* The record the callback of .map returns for a kept line.
headerOfLine(line, id) ==
  LET parts == split(line, COLON)
  IN  [name |-> trim(parts[1]),
       value |-> trim(join(Tail(parts), COLON)),
       enabled |-> TRUE,
       id |-> id]

RECURSIVE numberHeaders(_, _)
\* generateId() is called once per kept line, in line order; lastId is the
\* last id handed out before.
numberHeaders(lines, lastId) ==
  IF lines = <<>> THEN <<>>
  ELSE IF headerLineKept(Head(lines))
       THEN <<headerOfLine(Head(lines), lastId + 1)>>
              \o numberHeaders(Tail(lines), lastId + 1)
       ELSE numberHeaders(Tail(lines), lastId)

parseHeaders(headersText, lastId) == numberHeaders(split(headersText, NL), lastId)

\* ------------------------------------------------------------------------
\* The concrete request of one word (runFuzzer.ts:75-88)
\* ------------------------------------------------------------------------
markersOfField_unfiltered(ms, field) == ms

\* markers.filter((m) => m.field === field)
markersOfField(ms, field) == SelectSeq(ms, LAMBDA m : m.field = field)

\* request.body?.text ?? '': a property that is null or undefined is a
\* field the record does not have.
bodyTextOf(req) == IF "text" \in DOMAIN req.body THEN req.body.text ELSE <<>>

\* { ...request.body, text: bodyText }
withText(body, bodyText) ==
  [k \in DOMAIN body \cup {"text"} |-> IF k = "text" THEN bodyText ELSE body[k]]

buildRequest_templateHeaders(draft, ms, raw, word, lastId) ==
  LET url      == applyMarkers(draft.url, markersOfField(ms, "url"), word)
      bodyText == applyMarkers(bodyTextOf(draft), markersOfField(ms, "body"), word)
      ofHeader == markersOfField(ms, "headers")
  IN  [draft EXCEPT !.url = url,
                    !.body = withText(draft.body, bodyText),
                    !.headers = IF ofHeader = <<>> THEN draft.headers
                                ELSE parseHeaders(applyMarkers(raw, ofHeader, word),
                                                  lastId)]

\* const request = { ...draftRequest } with url, body and headers replaced.
buildRequest(draft, ms, raw, word, lastId) ==
  LET url         == applyMarkers(draft.url, markersOfField(ms, "url"), word)
      bodyText    == applyMarkers(bodyTextOf(draft), markersOfField(ms, "body"), word)
      headersText == applyMarkers(raw, markersOfField(ms, "headers"), word)
  IN  [draft EXCEPT !.url = url,
                    !.body = withText(draft.body, bodyText),
                    !.headers = parseHeaders(headersText, lastId)]

\* ------------------------------------------------------------------------
\* State
\* ------------------------------------------------------------------------
VARIABLES
  fnText,       \* the text argument of the pure function under check
  fnMarkers,    \* its list argument: the markers of applyMarkers, the headers
                \* of the request a header text is made from
  fnWord,       \* applyMarkers: the word argument
  fnOut,        \* the returned value (empty before the call)
  fnPc,         \* "input" before the call, after it "returned" or the caller
  draftRequest, \* the template (fuzzerDraftRequestAtom / activeRequest), or NoRequest
  rawHeaders,   \* the raw header block (fuzzerRawHeadersAtom / headers)
  markers,      \* the marker store (fuzzerMarkersAtom)
  wordlist,     \* the word-list text (fuzzerWordlistAtom / wordlist)
  isRunning,    \* fuzzerIsRunningAtom / isRunning
  results,      \* the result log; addResult and setResults write it
  words,        \* the words argument of the run
  pc,           \* "idle", "await" (a send or an invoke is pending), "done"
  caller,       \* the operation that was invoked: "none" before
  idx,          \* 1-based position of the loop in words
  request,      \* the working request of the current iteration, or NoRequest
  start,        \* const start = nowPerf()
  sendLog,      \* the requests sendRequest was called with, in call order
  cont,         \* what shouldContinue() returns when called now
  sampled,      \* the values shouldContinue() has returned, in call order
  outcomes,     \* what the sends or invokes have resolved or rejected with, in order
  idCounter,    \* the last id generateId() handed out
  clock,        \* the time nowPerf() and now() read
  started,      \* setIsRunning(true) has been executed
  backendCall,  \* arguments of a pending or past cmd_run_fuzz_attack, or NoCall
  before,       \* the template, raw headers and markers before the run
  doc,          \* view.state.doc of the editor the toggle acts on
  selection,    \* view.state.selection.main: its anchor and head
  toggled,      \* the toggles done since the selection was set: state before, case taken
  isLocked,     \* fuzzerIsLockedAtom
  showCurlImport, \* the cURL import dialog is open
  curlInput,    \* the text typed into the cURL import dialog
  uiInput,      \* the text of the last edit event of the url, headers or body editor
  pendingRuns,  \* the cmd_run_fuzz_attack invocations that have not settled yet
  delivered,    \* per started attack, the fuzz_result payloads delivered since its start
  calls,        \* the calls of the injected callbacks of the engine, in call order
  previous      \* what an earlier run of the engine has sent, logged and got, or NoRun

fnVars == <<fnText, fnMarkers, fnWord, fnOut, fnPc>>

templateVars == <<draftRequest, rawHeaders, markers, wordlist>>

runVars == <<isRunning, results, words, pc, caller, idx, request, start,
             sendLog, cont, sampled, outcomes, idCounter, clock, started,
             backendCall, before>>

toggleVars == <<doc, selection, toggled>>

uiVars == <<isLocked, showCurlImport, curlInput, uiInput>>

paneVars == <<pendingRuns, delivered>>

vars == <<fnVars, templateVars, runVars, toggleVars, uiVars, paneVars, calls,
          previous>>

\* ------------------------------------------------------------------------
\* Input domains
\* ------------------------------------------------------------------------
Alphabet == {"a", "b"}

RECURSIVE StringsUpTo(_, _)
\* All strings over the alphabet of length 0..n.
StringsUpTo(alpha, n) ==
  IF n = 0 THEN {<<>>}
  ELSE LET shorter == StringsUpTo(alpha, n - 1)
       IN  shorter \cup {Append(s, c) : s \in shorter, c \in alpha}

\* Replacement words "x", "xy", ... of length 1..MaxWordLen.
WordShapes == {[i \in 1..n |-> IF i = 1 THEN "x" ELSE "y"] : n \in 1..MaxWordLen}

\* FuzzerMarker (runFuzzer.ts:3-9) restricted to one field; the id stands
\* for the generated id and tells two markers on the same span apart.
SpanMarker(id, field, s, e) ==
  [id |-> id, field |-> field, start |-> s, end |-> e]

Spans == {<<s, e>> \in (0..MaxOff) \X (0..MaxOff) : s <= e}

RECURSIVE SpanLists(_, _)
\* All lists of exactly n markers of one field, marker k having id k.
SpanLists(field, n) ==
  IF n = 0 THEN {<<>>}
  ELSE {Append(l, SpanMarker(n, field, sp[1], sp[2])) :
          l \in SpanLists(field, n - 1), sp \in Spans}

MarkerListsUpTo(field, n) == UNION {SpanLists(field, k) : k \in 0..n}

\* ------------------------------------------------------------------------
\* Specification of applyMarkers as a pure function
\* ------------------------------------------------------------------------
\* The run state before any operation is invoked.
RunIdle ==
  /\ isRunning = FALSE
  /\ results = <<>>
  /\ pc = "idle"
  /\ caller = "none"
  /\ idx = 0
  /\ request = NoRequest
  /\ start = 0
  /\ sendLog = <<>>
  /\ sampled = <<>>
  /\ outcomes = <<>>
  /\ idCounter = 0
  /\ clock = 0
  /\ started = FALSE
  /\ backendCall = NoCall
  /\ before = [draftRequest |-> draftRequest, rawHeaders |-> rawHeaders,
               markers |-> markers]
  /\ pendingRuns = 0
  /\ delivered = <<>>
  /\ calls = <<>>
  /\ previous = NoRun

NoTemplate ==
  /\ draftRequest = NoRequest
  /\ rawHeaders = <<>>
  /\ markers = <<>>
  /\ wordlist = <<>>
  /\ words = <<>>
  /\ cont = TRUE

NoFunctionCall ==
  /\ fnText = <<>>
  /\ fnMarkers = <<>>
  /\ fnWord = <<>>
  /\ fnOut = <<>>
  /\ fnPc = "unused"

\* No editor view is involved.
NoEditor ==
  /\ doc = <<>>
  /\ selection = [anchor |-> 0, head |-> 0]
  /\ toggled = <<>>

\* The atoms of the layout that the runs do not read.
NoLayout ==
  /\ isLocked = FALSE
  /\ showCurlImport = FALSE
  /\ curlInput = <<>>
  /\ uiInput = <<>>

InitApply ==
  /\ fnText \in StringsUpTo(Alphabet, MaxLen)
  /\ fnMarkers \in MarkerListsUpTo("url", MaxMarkers)
  /\ fnWord \in WordShapes
  /\ fnOut = <<>>
  /\ fnPc = "input"
  /\ NoTemplate
  /\ RunIdle
  /\ NoEditor
  /\ NoLayout

CallApplyMarkers ==
  /\ fnPc = "input"
  /\ fnOut' = applyMarkers(fnText, fnMarkers, fnWord)
  /\ fnPc' = "returned"
  /\ UNCHANGED <<fnText, fnMarkers, fnWord, templateVars, runVars,
                 toggleVars, uiVars, paneVars, calls, previous>>

NextApply == CallApplyMarkers

SpecApply == InitApply /\ [][NextApply]_vars

\* ------------------------------------------------------------------------
\* Inputs of a run
\* ------------------------------------------------------------------------
MaxRunMarkers == 2

MaxWords == 2

MaxDelay == 1

\* The template of the runs: workspaceId, authentication ({}), method and
\* form stand for the properties the engine passes through, headers for the
\* template's own header list.
RunTemplate(body) ==
  [model |-> "http_request",
   workspaceId |-> "temp",
   authentication |-> <<>>,
   method |-> "GET",
   url |-> <<"h", "/", "F">>,
   body |-> body,
   headers |-> <<[name |-> <<"T">>, value |-> <<"v">>, enabled |-> TRUE, id |-> 0]>>]

RunTemplates ==
  {RunTemplate([text |-> <<"t", "=", "F">>, form |-> "f"]),
   RunTemplate([form |-> "f"])}

RunRawHeaders == {<<"X", COLON, "F">>, <<>>}

RunMarkerSet ==
  {SpanMarker(1, "url", 2, 3), SpanMarker(2, "url", 0, 1),
   SpanMarker(3, "body", 2, 3), SpanMarker(4, "headers", 2, 3)}

RECURSIVE DistinctLists(_, _)
\* The lists of exactly n different elements of S.
DistinctLists(S, n) ==
  IF n = 0 THEN {<<>>}
  ELSE {Append(lx[1], lx[2]) :
          lx \in {ly \in DistinctLists(S, n - 1) \X S :
                    \A k \in 1..Len(ly[1]) : ly[1][k] # ly[2]}}

RunMarkerLists == UNION {DistinctLists(RunMarkerSet, n) : n \in 0..MaxRunMarkers}

RunWords == {<<"x">>, <<"y", "z">>}

RECURSIVE ListsOf(_, _)
ListsOf(S, n) ==
  IF n = 0 THEN {<<>>}
  ELSE {Append(l, x) : l \in ListsOf(S, n - 1), x \in S}

WordLists == UNION {ListsOf(RunWords, n) : n \in 0..MaxWords}

\* Word-list texts: blank ones, and ones with blank lines and padding.
WordlistTexts ==
  {<<>>, <<" ">>, <<NL>>, <<"x">>, <<"x", NL, " ", NL, " ", "y", "z">>}

\* What sendRequest can resolve with: Pick<HttpResponse, 'status' |
\* 'contentLength' | 'error'>; a null property is a missing field.
Responses ==
  {[status |-> 200, contentLength |-> 7],
   [status |-> 404, contentLength |-> 0],
   [status |-> 500, error |-> "upstream"]}

\* What sendRequest can reject with: an Error or a string.
Failures ==
  {[kind |-> "Error", message |-> "net"],
   [kind |-> "Error", message |-> ""],
   [kind |-> "string", value |-> "denied"]}

\* String(e)
String(e) ==
  IF e.kind = "Error"
  THEN (IF e.message = "" THEN "Error" ELSE "Error: " \o e.message)
  ELSE e.value

\* ------------------------------------------------------------------------
\* runFuzzerRequests (runFuzzer.ts:63-116)
\* ------------------------------------------------------------------------
loopContinues_inverted(returned) == ~returned

loopContinues_ignored(returned) == TRUE

\* if (!shouldContinue()) break: the loop goes on when the predicate,
\* called now, returns true.
loopContinues(returned) == returned

addResult_prepended(log, result) == <<result>> \o log

\* The addResult callback: results.push(result).
addResult(log, result) == Append(log, result)

templateAfterIteration_aliased(draft, working) == working

\* The template after one iteration: the iteration writes url, body and
\* headers into the copy { ...draftRequest }, so the template is as before.
templateAfterIteration(draft, working) == draft

\* The loop with sendRequest(request) not awaited: every remaining word is
\* sent before the first result.
loopHead_notAwaited(k, lastId, log, t) ==
  /\ idx' = k
  /\ idCounter' = lastId
  /\ calls' = log
  /\ IF k > Len(words)
     THEN /\ pc' = "done"
          /\ UNCHANGED <<request, start, sendLog, sampled, draftRequest>>
     ELSE /\ sampled' = sampled \o [j \in 1..(Len(words) - k + 1) |-> cont]
          /\ request' = buildRequest(draftRequest, markers, rawHeaders,
                                     words[Len(words)], lastId)
          /\ sendLog' = sendLog \o
                [j \in 1..(Len(words) - k + 1) |->
                   buildRequest(draftRequest, markers, rawHeaders,
                                words[k + j - 1], lastId)]
          /\ start' = t
          /\ pc' = "await"
          /\ UNCHANGED draftRequest

\* One call of an injected callback, made at time t.
Called(fn, t) == [fn |-> fn, at |-> t]

loopHead_staleRequest(k, lastId, log, t) ==
  /\ idx' = k
  /\ IF k > Len(words)
     THEN /\ pc' = "done"
          /\ idCounter' = lastId
          /\ calls' = log
          /\ UNCHANGED <<request, start, sendLog, sampled, draftRequest>>
     ELSE /\ sampled' = Append(sampled, cont)
          /\ IF ~loopContinues(cont)
             THEN /\ pc' = "done"
                  /\ idCounter' = lastId
                  /\ calls' = Append(log, Called("shouldContinue", t))
                  /\ UNCHANGED <<request, start, sendLog, draftRequest>>
             ELSE LET req == buildRequest(IF request # NoRequest THEN request
                                          ELSE draftRequest,
                                          markers, rawHeaders, words[k], lastId)
                  IN  /\ request' = req
                      /\ draftRequest' = draftRequest
                      /\ idCounter' = lastId + Len(req.headers)
                      /\ start' = t
                      /\ sendLog' = Append(sendLog, req)
                      /\ calls' = Append(log, Called("shouldContinue", t))
                                  \o [j \in 1..Len(req.headers) |->
                                        Called("generateId", t)]
                                  \o <<Called("nowPerf", t),
                                       Called("sendRequest", t)>>
                      /\ pc' = "await"

\* The head of the for-loop for position k, up to the await of sendRequest
\* or the end of the function; lastId is the last id handed out so far,
\* log the callback calls made so far and t the time of the step.
loopHead(k, lastId, log, t) ==
  /\ idx' = k
  /\ IF k > Len(words)
     THEN /\ pc' = "done"
          /\ idCounter' = lastId
          /\ calls' = log
          /\ UNCHANGED <<request, start, sendLog, sampled, draftRequest>>
     ELSE /\ sampled' = Append(sampled, cont)
          /\ IF ~loopContinues(cont)
             THEN /\ pc' = "done"
                  /\ idCounter' = lastId
                  /\ calls' = Append(log, Called("shouldContinue", t))
                  /\ UNCHANGED <<request, start, sendLog, draftRequest>>
             ELSE LET req == buildRequest(draftRequest, markers, rawHeaders,
                                          words[k], lastId)
                  IN  /\ request' = req
                      /\ draftRequest' = templateAfterIteration(draftRequest, req)
                      /\ idCounter' = lastId + Len(req.headers)
                      /\ start' = t
                      /\ sendLog' = Append(sendLog, req)
                      /\ calls' = Append(log, Called("shouldContinue", t))
                                  \o [j \in 1..Len(req.headers) |->
                                        Called("generateId", t)]
                                  \o <<Called("nowPerf", t),
                                       Called("sendRequest", t)>>
                      /\ pc' = "await"

\* The call of runFuzzerRequests, up to the first await.
runFuzzerRequests ==
  /\ pc = "idle"
  /\ draftRequest # NoRequest
  /\ caller' = "runFuzzerRequests"
  /\ loopHead(1, idCounter, calls, clock)
  /\ UNCHANGED <<fnVars, toggleVars, uiVars, rawHeaders, markers, wordlist,
                 isRunning, results, words, cont, outcomes, clock, started,
                 backendCall, before, paneVars, previous>>

successResult_errorAsFailure(id, word, response, elapsed, timestamp) ==
  IF "error" \in DOMAIN response
  THEN [id |-> id, word |-> word, status |-> 0, elapsed |-> 0,
        contentLength |-> 0, error |-> response.error,
        timestamp |-> timestamp]
  ELSE [id |-> id, word |-> word, status |-> response.status,
        elapsed |-> elapsed, contentLength |-> response.contentLength,
        timestamp |-> timestamp]

\* The result of the try branch (runFuzzer.ts:95-103).
successResult(id, word, response, elapsed, timestamp) ==
  LET base == [id |-> id, word |-> word, status |-> response.status,
               elapsed |-> elapsed,
               contentLength |-> IF "contentLength" \in DOMAIN response
                                 THEN response.contentLength ELSE 0,
               timestamp |-> timestamp]
  IN  IF "error" \in DOMAIN response
      THEN [k \in DOMAIN base \cup {"error"} |->
              IF k = "error" THEN response.error ELSE base[k]]
      ELSE base

failureResult_swallowed(id, word, e, timestamp) ==
  [id |-> id, word |-> word, status |-> 0, elapsed |-> 0,
   contentLength |-> 0, error |-> "", timestamp |-> timestamp]

\* The result of the catch branch (runFuzzer.ts:105-113).
failureResult(id, word, e, timestamp) ==
  [id |-> id, word |-> word, status |-> 0, elapsed |-> 0,
   contentLength |-> 0, error |-> String(e), timestamp |-> timestamp]

elapsed_sinceRunStart(first, second) == second

\* const elapsed = nowPerf() - start (runFuzzer.ts:93): second is the value
\* nowPerf() returns after the send, first the value it returned before.
elapsed(first, second) == second - first

\* await sendRequest(request) resolves after d units of time; the loop
\* appends the result and goes on to the next word.
sendRequestResolves ==
  /\ pc = "await"
  /\ caller = "runFuzzerRequests"
  /\ \E response \in Responses, d \in 0..MaxDelay :
       /\ clock' = clock + d
       /\ results' = addResult(results,
             successResult(idCounter + 1, words[idx], response,
                           elapsed(start, clock + d), clock + d))
       /\ outcomes' = Append(outcomes, [ok |-> TRUE, response |-> response])
       /\ loopHead(idx + 1, idCounter + 1,
                   calls \o <<Called("nowPerf", clock + d),
                              Called("generateId", clock + d),
                              Called("now", clock + d),
                              Called("addResult", clock + d)>>,
                   clock + d)
  /\ UNCHANGED <<fnVars, toggleVars, uiVars, rawHeaders, markers, wordlist,
                 isRunning, words, caller, cont, started, backendCall,
                 before, paneVars, previous>>

\* await sendRequest(request) rejects after d units of time.
sendRequestRejects ==
  /\ pc = "await"
  /\ caller = "runFuzzerRequests"
  /\ \E e \in Failures, d \in 0..MaxDelay :
       /\ clock' = clock + d
       /\ results' = addResult(results,
             failureResult(idCounter + 1, words[idx], e, clock'))
       /\ outcomes' = Append(outcomes, [ok |-> FALSE, thrown |-> e])
       /\ loopHead(idx + 1, idCounter + 1,
                   calls \o <<Called("generateId", clock + d),
                              Called("now", clock + d),
                              Called("addResult", clock + d)>>,
                   clock + d)
  /\ UNCHANGED <<fnVars, toggleVars, uiVars, rawHeaders, markers, wordlist,
                 isRunning, words, caller, cont, started, backendCall,
                 before, paneVars, previous>>

\* The owner of shouldContinue changes what it returns; this can happen
\* before the run and while a send is pending, never inside a loop step.
shouldContinueChanges ==
  /\ pc \in {"idle", "await"}
  /\ caller \in {"none", "runFuzzerRequests"}
  /\ cont' = ~cont
  /\ UNCHANGED <<fnVars, toggleVars, uiVars, templateVars, isRunning,
                 results, words, pc, caller, idx, request, start, sendLog,
                 sampled, outcomes, idCounter, clock, started, backendCall,
                 before, paneVars, calls, previous>>

\* ------------------------------------------------------------------------
\* handleRunFuzzer (FuzzerLayout.tsx:583-667)
\* ------------------------------------------------------------------------
wordsOfWordlist_untrimmed(text) ==
  SelectSeq(split(text, NL), LAMBDA w : w # <<>>)

\* wordlist.split('\n').map(w => w.trim()).filter(w => w)
wordsOfWordlist(text) ==
  LET lines == split(text, NL)
      trimmed == [k \in 1..Len(lines) |-> trim(lines[k])]
  IN  SelectSeq(trimmed, LAMBDA w : w # <<>>)

\* The handlers of FuzzerRequestPane and of the elements it renders.
LayoutHandlers ==
  {"handleRunFuzzer", "handleImportCurl", "handleMarkSelection",
   "handleClearMarkers", "onChangeUrl", "onChangeHeaders", "onChangeBody",
   "setWordlist", "setShowCurlImport", "setCurlInput"}

\* The pane takes an event: no handler has run yet, or the last one was
\* one of the pane and has returned.
layoutReady == pc = "idle" \/ (pc = "done" /\ caller \in LayoutHandlers)

runGuardFails_markersUnchecked ==
  draftRequest = NoRequest \/ trim(wordlist) = <<>>

\* !draftRequest || markers.length === 0 || !wordlist.trim()
runGuardFails ==
  draftRequest = NoRequest \/ Len(markers) = 0 \/ trim(wordlist) = <<>>

\* The handler closes over the isRunning of the render it was created in.
\* The Run button is disabled while isRunning is true, so that value is
\* false; the loop leaves at its first check (line 601) and the handler
\* reaches setIsRunning(false) without an await.
handleRunFuzzer ==
  /\ layoutReady
  /\ isRunning = FALSE
  /\ caller' = "handleRunFuzzer"
  /\ pc' = "done"
  /\ IF runGuardFails
     THEN UNCHANGED <<results, words, started, isRunning>>
     ELSE /\ started' = TRUE
          /\ results' = <<>>
          /\ words' = wordsOfWordlist(wordlist)
          /\ isRunning' = FALSE
  /\ UNCHANGED <<fnVars, toggleVars, uiVars, templateVars, idx, request,
                 start, sendLog, cont, sampled, outcomes, idCounter, clock,
                 backendCall, before, paneVars, calls, previous>>

\* ------------------------------------------------------------------------
\* handleStart (Fuzzer/FuzzerPane.tsx:110-147)
\* ------------------------------------------------------------------------
\* The header list of the template request: every line with a colon.
paneHeaderList(text) ==
  LET lines == split(text, NL)
      kept  == SelectSeq(lines, LAMBDA l : Len(split(l, COLON)) >= 2)
  IN  [k \in 1..Len(kept) |->
         [name |-> trim(split(kept[k], COLON)[1]),
          value |-> trim(join(Tail(split(kept[k], COLON)), COLON)),
          enabled |-> TRUE]]

\* The attacks one pane starts.
MaxRuns == 2

startEnabled_always(running) == TRUE

\* isRunning ? <Button onClick={handleStop}> : <Button onClick={handleStart}>:
\* the Start button exists only while isRunning is false.
startEnabled(running) == ~running

\* The pane takes an event: no operation has been invoked yet, or the last
\* one was its own handleStart (pending or settled).
paneReady == pc = "idle" \/ caller = "handleStart"

setResultsEmpty_skipped(prev) == prev

\* setResults([]) of handleStart (FuzzerPane.tsx:112).
setResultsEmpty(prev) == <<>>

\* The handler up to the await of invoke('cmd_run_fuzz_attack', ...); url
\* and body are the pane's copies of the active request's url and body.
handleStart ==
  /\ paneReady
  /\ startEnabled(isRunning)
  /\ draftRequest # NoRequest
  /\ Len(delivered) < MaxRuns
  /\ caller' = "handleStart"
  /\ isRunning' = TRUE
  /\ started' = TRUE
  /\ results' = setResultsEmpty(results)
  /\ pendingRuns' = pendingRuns + 1
  /\ delivered' = Append(delivered, <<>>)
  /\ words' = wordsOfWordlist(wordlist)
  /\ backendCall' =
       [command |-> "cmd_run_fuzz_attack",
        baseRequest |-> [draftRequest EXCEPT
                           !.headers = paneHeaderList(rawHeaders),
                           !.body = withText(draftRequest.body,
                                             bodyTextOf(draftRequest))],
        wordlist |-> words']
  /\ pc' = "await"
  /\ UNCHANGED <<fnVars, toggleVars, uiVars, templateVars, idx, request,
                 start, sendLog, cont, sampled, outcomes, idCounter, clock,
                 before, calls, previous>>

invokeSettles_noFinally ==
  /\ pendingRuns > 0
  /\ caller = "handleStart"
  /\ \E ok \in BOOLEAN :
       /\ outcomes' = Append(outcomes, [ok |-> ok])
       /\ isRunning' = IF ok THEN FALSE ELSE isRunning
  /\ pendingRuns' = pendingRuns - 1
  /\ pc' = IF pendingRuns = 1 THEN "done" ELSE "await"
  /\ UNCHANGED <<fnVars, toggleVars, uiVars, templateVars, results, words,
                 caller, idx, request, start, sendLog, cont, sampled,
                 idCounter, clock, started, backendCall, before, delivered,
                 calls, previous>>

\* One invoke resolves or rejects: the catch block logs a rejection and the
\* finally block runs in both cases (FuzzerPane.tsx:142-146).
invokeSettles ==
  /\ pendingRuns > 0
  /\ caller = "handleStart"
  /\ \E ok \in BOOLEAN : outcomes' = Append(outcomes, [ok |-> ok])
  /\ isRunning' = FALSE
  /\ pendingRuns' = pendingRuns - 1
  /\ pc' = IF pendingRuns = 1 THEN "done" ELSE "await"
  /\ UNCHANGED <<fnVars, toggleVars, uiVars, templateVars, results, words,
                 caller, idx, request, start, sendLog, cont, sampled,
                 idCounter, clock, started, backendCall, before, delivered,
                 calls, previous>>

\* The statuses the fuzz_result payloads carry.
PayloadStatuses == {200, 500}

\* The fuzz_result listener (FuzzerPane.tsx:71-79): setResults(prev =>
\* [...prev, event.payload]).  cmd_run_fuzz_attack emits one event per word
\* of its word list, in order, before it settles.
fuzzResult ==
  /\ pendingRuns > 0
  /\ caller = "handleStart"
  /\ Len(delivered[Len(delivered)]) < Len(backendCall.wordlist)
  /\ \E status \in PayloadStatuses :
       LET payload ==
             [request_id |-> "r",
              payload |-> backendCall.wordlist[Len(delivered[Len(delivered)]) + 1],
              status |-> status, time_ms |-> 0, size_bytes |-> 0]
       IN  /\ results' = Append(results, payload)
           /\ delivered' = [delivered EXCEPT ![Len(delivered)] =
                              Append(@, payload)]
  /\ UNCHANGED <<fnVars, toggleVars, uiVars, templateVars, isRunning, words,
                 pc, caller, idx, request, start, sendLog, cont, sampled,
                 outcomes, idCounter, clock, started, backendCall, before,
                 pendingRuns, calls, previous>>

\* onChange of the word-list editor of the pane: setWordlist(text).
onChangeWordlist ==
  /\ paneReady
  /\ \E text \in WordlistTexts : wordlist' = text
  /\ UNCHANGED <<fnVars, toggleVars, uiVars, draftRequest, rawHeaders,
                 markers, runVars, paneVars, calls, previous>>

\* ------------------------------------------------------------------------
\* Specification of the runs
\* ------------------------------------------------------------------------
Init ==
  /\ NoFunctionCall
  /\ draftRequest \in RunTemplates \cup {NoRequest}
  /\ rawHeaders \in RunRawHeaders
  /\ markers \in RunMarkerLists
  /\ \/ words \in WordLists /\ wordlist = <<>>
     \/ words = <<>> /\ wordlist \in WordlistTexts
  /\ cont \in BOOLEAN
  /\ RunIdle
  /\ NoEditor
  /\ NoLayout

Next ==
  \/ runFuzzerRequests
  \/ sendRequestResolves
  \/ sendRequestRejects
  \/ shouldContinueChanges
  \/ handleRunFuzzer
  \/ handleStart
  \/ invokeSettles

Spec == Init /\ [][Next]_vars

\* ------------------------------------------------------------------------
\* Specification of the request of one word
\* ------------------------------------------------------------------------
MaxFieldLen == 2

BuildBodies ==
  {[form |-> "f"]} \cup
  {[text |-> t, form |-> "f"] : t \in StringsUpTo({"c"}, MaxFieldLen)}

BuildRawHeaders ==
  {<<>>, <<"a", COLON, "b">>, <<"a", COLON, "b", NL, "b", COLON, "a">>}

FieldSpans == {<<s, e>> \in (0..MaxFieldLen) \X (0..MaxFieldLen) : s <= e}

RECURSIVE FieldMarkerLists(_)
\* All lists of exactly n markers, of any field, marker k having id k.
FieldMarkerLists(n) ==
  IF n = 0 THEN {<<>>}
  ELSE {Append(l, SpanMarker(n, f, sp[1], sp[2])) :
          l \in FieldMarkerLists(n - 1),
          f \in {"url", "body", "headers"}, sp \in FieldSpans}

InitBuild ==
  /\ NoFunctionCall
  /\ \E u \in StringsUpTo(Alphabet, MaxFieldLen), b \in BuildBodies :
       draftRequest = [RunTemplate(b) EXCEPT !.url = u]
  /\ rawHeaders \in BuildRawHeaders
  /\ markers \in UNION {FieldMarkerLists(n) : n \in 0..MaxMarkers}
  /\ wordlist = <<>>
  /\ \E w \in WordShapes : words = <<w>>
  /\ cont = TRUE
  /\ RunIdle
  /\ NoEditor
  /\ NoLayout

NextBuild == runFuzzerRequests

SpecBuild == InitBuild /\ [][NextBuild]_vars

\* ------------------------------------------------------------------------
\* Reference semantics of substitution
\* ------------------------------------------------------------------------
InRange(text, m) == 0 <= m.start /\ m.start <= m.end /\ m.end <= Len(text)

NonEmptySpan(m) == m.start < m.end

Overlap(a, b) == a.start < b.end /\ b.start < a.end

PairwiseDisjoint(ms) ==
  \A i, j \in 1..Len(ms) : i # j => ~Overlap(ms[i], ms[j])

RECURSIVE Repeat(_, _)
Repeat(word, n) == IF n = 0 THEN <<>> ELSE word \o Repeat(word, n - 1)

RECURSIVE RefFrom(_, _, _, _)
\* The text from offset p on, every marked span replaced by the word and
\* every character outside the spans kept; an empty span at p inserts the
\* word in front of offset p.
RefFrom(text, ms, word, p) ==
  LET empties == {i \in 1..Len(ms) : ms[i].start = p /\ ms[i].end = p}
      starts  == {i \in 1..Len(ms) : ms[i].start = p /\ ms[i].end > p}
      ins     == Repeat(word, Cardinality(empties))
  IN  IF p >= Len(text) THEN ins
      ELSE IF starts # {}
           THEN ins \o word \o RefFrom(text, ms, word, ms[CHOOSE i \in starts : TRUE].end)
           ELSE ins \o <<text[p + 1]>> \o RefFrom(text, ms, word, p + 1)

RefSubst(text, ms, word) == RefFrom(text, ms, word, 0)

\* The text the k first markers of the ordered list have been applied to.
RECURSIVE AfterFirst(_, _, _, _)
AfterFirst(text, ordered, word, k) ==
  IF k = 0 THEN text
  ELSE replaceSpan(AfterFirst(text, ordered, word, k - 1), ordered[k], word)

\* Every marker of the ordered list, when its turn comes, still points at
\* the characters it pointed at in the original text.
PointsAtUnshifted(text, ordered, word) ==
  \A k \in 1..Len(ordered) :
     substring(AfterFirst(text, ordered, word, k - 1), ordered[k].start, ordered[k].end)
       = substring(text, ordered[k].start, ordered[k].end)

Lawful(text, ms) ==
  /\ \A i \in 1..Len(ms) : InRange(text, ms[i])
  /\ PairwiseDisjoint(ms)

\* C5 (as stated): for any text, any pairwise non-overlapping in-range
\* markers and any word, applyMarkers returns the text with every marked
\* span replaced by the word and every other character kept in order.
C5_AnyDisjointMarkers ==
  (fnPc = "returned" /\ Lawful(fnText, fnMarkers))
    => fnOut = RefSubst(fnText, fnMarkers, fnWord)

\* C5 (amended): the substitution law holds for pairwise non-overlapping
\* in-range markers whose spans are non-empty (start < end), for words of
\* any length; in descending order every marker is applied to characters
\* that have not shifted.
C5_DescendingSubstitution ==
  (/\ fnPc = "returned"
   /\ Lawful(fnText, fnMarkers)
   /\ \A i \in 1..Len(fnMarkers) : NonEmptySpan(fnMarkers[i]))
    => /\ fnOut = RefSubst(fnText, fnMarkers, fnWord)
       /\ PointsAtUnshifted(fnText, sortedMarkers(fnMarkers), fnWord)

\* C5 witness: two disjoint non-empty markers and a word longer than the
\* lower span; descending order gives the reference text, ascending order
\* of the same markers does not.
C5_Witness ==
  /\ fnPc = "returned"
  /\ Len(fnMarkers) = 2
  /\ Lawful(fnText, fnMarkers)
  /\ \A i \in 1..2 : NonEmptySpan(fnMarkers[i])
  /\ \E i \in 1..2 : Len(fnWord) # fnMarkers[i].end - fnMarkers[i].start
  /\ fnOut = RefSubst(fnText, fnMarkers, fnWord)
  /\ applyInOrder(fnText, SortAsc(fnMarkers), fnWord) # fnOut

\* ------------------------------------------------------------------------
\* Properties of a run of runFuzzerRequests
\* ------------------------------------------------------------------------
EngineRun == caller = "runFuzzerRequests"

AllTrue(bs) == \A k \in 1..Len(bs) : bs[k] = TRUE

\* The words of the results so far are the first words of the list.
ResultsFollowWords ==
  /\ Len(results) <= Len(words)
  /\ \A i \in 1..Len(results) : results[i].word = words[i]

\* C1: with non-empty words and markers and a shouldContinue that always
\* returns true, the finished run has appended exactly Len(words) results
\* and result i carries words[i], whatever the sends did; until then the
\* results are those of the first words, in order.
C1_OneResultPerWord ==
  (EngineRun /\ Len(words) > 0 /\ Len(markers) > 0 /\ AllTrue(sampled))
    => /\ ResultsFollowWords
       /\ pc = "done" => Len(results) = Len(words)

\* C1 witness: a finished run over two words, one send failed and one
\* succeeded.
C1_Witness ==
  /\ EngineRun /\ pc = "done" /\ AllTrue(sampled)
  /\ Len(markers) > 0 /\ Len(words) = MaxWords /\ Len(results) = Len(words)
  /\ \E i, j \in 1..Len(outcomes) : outcomes[i].ok /\ ~outcomes[j].ok

\* C2: at most one dispatch is in flight: the number of results equals the
\* number of sends started, or is one less exactly while a send is pending,
\* and the pending send is the one of the word after the last result.
C2_OneDispatchInFlight ==
  EngineRun =>
    /\ Len(sendLog) = Len(results) + (IF pc = "await" THEN 1 ELSE 0)
    /\ Len(outcomes) = Len(results)
    /\ pc = "await" => idx = Len(results) + 1

\* C2 witness: the second send is pending and the first result is there.
C2_Witness ==
  EngineRun /\ pc = "await" /\ Len(sendLog) = 2 /\ Len(results) = 1

\* C3 (state part): shouldContinue is called once per word reached, before
\* its dispatch; only the last call can have returned false, every true
\* call is followed by exactly one send, and after a false call at word k
\* the run is over with the results of the k - 1 first words and no more
\* sends.
C3_SampledPerWord ==
  EngineRun =>
    /\ \A j \in 1..(Len(sampled) - 1) : sampled[j] = TRUE
    /\ Len(sendLog) = Cardinality({j \in 1..Len(sampled) : sampled[j]})
    /\ (Len(sampled) > 0 /\ ~sampled[Len(sampled)]) =>
          /\ pc = "done"
          /\ Len(results) = Len(sampled) - 1
          /\ Len(sendLog) = Len(sampled) - 1
          /\ ResultsFollowWords

\* C3: cancellation is cooperative and sampled freshly before each word:
\* the state part above holds; a change of the predicate while a send is
\* pending interrupts nothing; the pending send still yields its result;
\* the value used for the next word is the current one; and after the run
\* has stopped no result and no send appears.
C3_CooperativeCancellation ==
  /\ []C3_SampledPerWord
  /\ [][(EngineRun /\ pc = "await" /\ cont' # cont)
          => (pc' = "await" /\ results' = results /\ sendLog' = sendLog)]_vars
  /\ [][(EngineRun /\ pc = "await" /\ cont' = cont)
          => /\ Len(results') = Len(results) + 1
             /\ results'[Len(results')].word = words[idx]
             /\ (idx < Len(words) =>
                   /\ sampled' = Append(sampled, cont)
                   /\ (pc' = "await") = cont)]_vars
  /\ [][(EngineRun /\ pc = "done")
          => (results' = results /\ sendLog' = sendLog)]_vars

\* C3 witness: the predicate turned false while the first word was in
\* flight; that word's result is there, the second word was never sent.
C3_Witness ==
  /\ EngineRun /\ pc = "done"
  /\ Len(words) = 2 /\ sampled = <<TRUE, FALSE>>
  /\ Len(results) = 1 /\ Len(sendLog) = 1

\* The text of a failure: the name of an Error followed by its message if
\* it has one, a thrown string itself.
Description(thrown) ==
  CASE thrown.kind = "Error" /\ thrown.message = "" -> "Error"
    [] thrown.kind = "Error" /\ thrown.message # "" -> "Error: " \o thrown.message
    [] thrown.kind = "string" -> thrown.value

Sent(req) ==
  [url |-> req.url, bodyText |-> req.body.text,
   headers |-> [k \in 1..Len(req.headers) |->
                  <<req.headers[k].name, req.headers[k].value>>]]

\* C7: the run leaves the template, the raw header text and the marker
\* list (content and order) as they were before it, and the request of
\* every word is built from the texts of that original template.
C7_TemplateReadOnly ==
  EngineRun =>
    /\ draftRequest = before.draftRequest
    /\ rawHeaders = before.rawHeaders
    /\ markers = before.markers
    /\ \A i \in 1..Len(sendLog) :
         Sent(sendLog[i]) =
           Sent(buildRequest(before.draftRequest, before.markers,
                             before.rawHeaders, words[i], 0))

\* C7 witness: the second word was sent with a url other than the
\* template's and than the first word's, and the run is over.
C7_Witness ==
  /\ EngineRun /\ pc = "done" /\ Len(sendLog) = 2
  /\ sendLog[1].url # before.draftRequest.url
  /\ sendLog[2].url # sendLog[1].url
  /\ draftRequest = before.draftRequest

\* C9: every result carries the request that was passed to send for its
\* word, and the response send returned, or no response when send threw.
C9_ResultSnapshots ==
  EngineRun =>
    \A i \in 1..Len(results) :
      /\ "request" \in DOMAIN results[i]
      /\ results[i].request = sendLog[i]
      /\ IF outcomes[i].ok
         THEN /\ "response" \in DOMAIN results[i]
              /\ results[i].response = outcomes[i].response
         ELSE "response" \notin DOMAIN results[i]

\* ------------------------------------------------------------------------
\* Preconditions of a run
\* ------------------------------------------------------------------------
Blank(text) == \A k \in 1..Len(text) : text[k] \in WhiteSpace

\* No template, no markers, or no word: the words of a direct call of the
\* engine are its argument, those of the panes the lines of the text.
PreconditionViolated ==
  \/ draftRequest = NoRequest
  \/ Len(markers) = 0
  \/ IF EngineRun THEN Len(words) = 0 ELSE Blank(wordlist)

NothingStarted ==
  /\ ~started
  /\ isRunning = FALSE
  /\ sendLog = <<>>
  /\ backendCall = NoCall
  /\ results = <<>>

\* C10 (as stated): whatever operation is invoked without a template,
\* without markers or with an empty word list, the run does not start: no
\* request is dispatched and no result is produced.
C10_NoRunWithoutPreconditions ==
  (caller # "none" /\ PreconditionViolated) => NothingStarted

\* C10 (amended): handleRunFuzzer returns before it starts anything when
\* there is no template, no marker or only a blank word list, and
\* runFuzzerRequests with an empty word list sends nothing and appends
\* nothing.
C10_GuardedRunFuzzer ==
  /\ (caller = "handleRunFuzzer" /\ PreconditionViolated)
       => (NothingStarted /\ pc = "done")
  /\ (EngineRun /\ Len(words) = 0)
       => (sendLog = <<>> /\ results = <<>> /\ pc = "done")

\* C10 witness: handleRunFuzzer was invoked with a template and a marker
\* but a word list of white space only, and has returned.
C10_Witness ==
  /\ caller = "handleRunFuzzer" /\ pc = "done"
  /\ draftRequest # NoRequest /\ Len(markers) > 0
  /\ Len(wordlist) > 0 /\ Blank(wordlist)
  /\ NothingStarted

\* ------------------------------------------------------------------------
\* Out-of-range markers
\* ------------------------------------------------------------------------
\* C8: a marker whose end exceeds the length of the text is skipped: the
\* text returned is the one returned without that marker.
C8_OutOfRangeSkipped ==
  fnPc = "returned" =>
    fnOut = applyMarkers(fnText,
                         SelectSeq(fnMarkers, LAMBDA m : m.end <= Len(fnText)),
                         fnWord)

\* ------------------------------------------------------------------------
\* Independence of the fields
\* ------------------------------------------------------------------------
\* The markers of the list that belong to the field.
FieldOnly(ms, field) == SelectSeq(ms, LAMBDA m : m.field = field)

TemplateBodyText ==
  IF "text" \in DOMAIN draftRequest.body THEN draftRequest.body.text ELSE <<>>

\* C6: the url sent for a word is determined by the template url and the
\* url markers, the body text by the template body text and the body
\* markers, the header list by the raw header text and the header markers;
\* a field without markers is sent as it is.
C6_FieldsIndependent ==
  (EngineRun /\ Len(sendLog) > 0) =>
    LET sent     == sendLog[1]
        word     == words[1]
        ofUrl    == FieldOnly(markers, "url")
        ofBody   == FieldOnly(markers, "body")
        ofHeader == FieldOnly(markers, "headers")
    IN  /\ sent.url = applyMarkers(draftRequest.url, ofUrl, word)
        /\ sent.body.text = applyMarkers(TemplateBodyText, ofBody, word)
        /\ sent.headers = parseHeaders(applyMarkers(rawHeaders, ofHeader, word), 0)
        /\ ofUrl = <<>> => sent.url = draftRequest.url
        /\ ofBody = <<>> => sent.body.text = TemplateBodyText
        /\ ofHeader = <<>> => sent.headers = parseHeaders(rawHeaders, 0)

\* C6 witness: a url marker and a body marker changed their own fields and
\* the header block, which has no marker, was sent as parsed from the raw
\* text.
C6_Witness ==
  /\ EngineRun /\ Len(sendLog) = 1
  /\ FieldOnly(markers, "url") # <<>>
  /\ FieldOnly(markers, "body") # <<>>
  /\ sendLog[1].url # draftRequest.url
  /\ sendLog[1].body.text # TemplateBodyText
  /\ Len(sendLog[1].headers) = 2
  /\ sendLog[1].headers = parseHeaders(rawHeaders, 0)

\* ------------------------------------------------------------------------
\* The run of the Run Fuzzer button
\* ------------------------------------------------------------------------
\* C11: a run started by handleRunFuzzer with a template, a marker and a
\* non-blank word list has, when the handler returns, dispatched one request
\* and appended one result for every entry of the word list.
C11_RunIteratesEveryWord ==
  (caller = "handleRunFuzzer" /\ pc = "done" /\ draftRequest # NoRequest
     /\ Len(markers) > 0 /\ ~Blank(wordlist))
    => /\ Len(words) > 0
       /\ Len(sendLog) = Len(words)
       /\ Len(results) = Len(words)

\* ------------------------------------------------------------------------
\* Specification of parseHeaders as a pure function
\* ------------------------------------------------------------------------
MaxHeaderLen == 6

\* The characters of a raw header block: a letter, the colon, a blank and
\* the line break.
HeaderAlphabet == {"a", COLON, " ", NL}

InitParse ==
  /\ fnText \in StringsUpTo(HeaderAlphabet, MaxHeaderLen)
  /\ fnMarkers = <<>>
  /\ fnWord = <<>>
  /\ fnOut = <<>>
  /\ fnPc = "input"
  /\ NoTemplate
  /\ RunIdle
  /\ NoEditor
  /\ NoLayout

CallParseHeaders ==
  /\ fnPc = "input"
  /\ fnOut' = parseHeaders(fnText, 0)
  /\ fnPc' = "returned"
  /\ UNCHANGED <<fnText, fnMarkers, fnWord, templateVars, runVars,
                 toggleVars, uiVars, paneVars, calls, previous>>

NextParse == CallParseHeaders

SpecParse == InitParse /\ [][NextParse]_vars

\* ------------------------------------------------------------------------
\* Reference decoding of a header block
\* ------------------------------------------------------------------------
\* The position of the first occurrence of the character, 0 if there is none.
FirstIndex(s, c) ==
  IF \E k \in 1..Len(s) : s[k] = c
  THEN CHOOSE k \in 1..Len(s) : s[k] = c /\ \A j \in 1..(k - 1) : s[j] # c
  ELSE 0

\* The text from its first to its last character that is not white space.
Stripped(s) ==
  LET solid == {k \in 1..Len(s) : s[k] \notin WhiteSpace}
  IN  IF solid = {} THEN <<>>
      ELSE SubSeq(s, CHOOSE k \in solid : \A j \in solid : k <= j,
                     CHOOSE k \in solid : \A j \in solid : j <= k)

\* The name and value of a line, cut at its first colon; no record for a
\* line without colon or without name.
RefHeaderOfLine(line) ==
  LET c == FirstIndex(line, COLON)
  IN  IF c = 0 \/ Stripped(SubSeq(line, 1, c - 1)) = <<>> THEN <<>>
      ELSE <<[name |-> Stripped(SubSeq(line, 1, c - 1)),
              value |-> Stripped(SubSeq(line, c + 1, Len(line)))]>>

RECURSIVE RefHeaders(_)
\* The records of the lines of the text, in line order.
RefHeaders(text) ==
  LET n == FirstIndex(text, NL)
  IN  IF n = 0 THEN RefHeaderOfLine(text)
      ELSE RefHeaderOfLine(SubSeq(text, 1, n - 1))
             \o RefHeaders(SubSeq(text, n + 1, Len(text)))

\* C12: parseHeaders returns, in line order, one record for each line with
\* a colon and a non-empty trimmed text before the first colon; its name is
\* that trimmed text, its value the trimmed rest of the line after the
\* first colon, its enabled flag true; other lines yield nothing.
C12_HeaderDecode ==
  fnPc = "returned" =>
    LET ref == RefHeaders(fnText)
    IN  /\ Len(fnOut) = Len(ref)
        /\ \A k \in 1..Len(ref) :
             /\ fnOut[k].name = ref[k].name
             /\ fnOut[k].value = ref[k].value
             /\ fnOut[k].enabled = TRUE

\* C12 witness: of a text of two lines one was dropped, and the value of
\* the record of the other holds a colon that followed the first one.
C12_Witness ==
  /\ fnPc = "returned"
  /\ \E k \in 1..Len(fnText) : fnText[k] = NL
  /\ Len(fnOut) = 1
  /\ \E k \in 1..Len(fnOut[1].value) : fnOut[1].value[k] = COLON

\* ------------------------------------------------------------------------
\* toggleMarkersAroundSelection (lib/markers.ts:12-82)
\* ------------------------------------------------------------------------
\* The default of the marker parameter, '§'.
marker == "§"

\* String.prototype.slice(a, b): a negative index counts from the end.
slice(s, a, b) ==
  LET from == IF a < 0 THEN Max(Len(s) + a, 0) ELSE Min(a, Len(s))
      to   == IF b < 0 THEN Max(Len(s) + b, 0) ELSE Min(b, Len(s))
  IN  SubSeq(s, from + 1, to)

\* String.prototype.slice(a)
sliceFrom(s, a) == slice(s, a, Len(s))

insertPair_caretAfter(docText, from, m) ==
  LET textBefore == slice(docText, 0, from)
      textAfter  == sliceFrom(docText, from)
      insert  == <<m, m>>
      nextPos == Len(textBefore) + 2
  IN  [text |-> textBefore \o insert \o textAfter, anchor |-> nextPos,
       head |-> nextPos, case |-> "insert"]

\* Lines 20-35: the selection is empty.
insertPair(docText, from, m) ==
  LET textBefore == slice(docText, 0, from)
      textAfter  == sliceFrom(docText, from)
      insert  == <<m, m>>
      nextPos == Len(textBefore) + 1
  IN  [text |-> textBefore \o insert \o textAfter, anchor |-> nextPos,
       head |-> nextPos, case |-> "insert"]

isFlanked_never(docText, from, to, m) == FALSE

\* Line 43: docText[from - 1] === marker && docText[to] === marker, the
\* indices of the code counting from 0.
isFlanked(docText, from, to, m) ==
  from > 0 /\ to < Len(docText) /\ docText[from] = m /\ docText[to + 1] = m

removeFlanking_leftOnly(docText, from, to) ==
  LET textBefore   == slice(docText, 0, from)
      selected == slice(docText, from, to)
      textAfter    == sliceFrom(docText, to)
      newFrom  == from - 1
  IN  [text |-> slice(textBefore, 0, -1) \o selected \o textAfter,
       anchor |-> newFrom, head |-> newFrom + Len(selected),
       case |-> "unflank"]

\* Lines 44-53: the markers around the selection are removed.
removeFlanking(docText, from, to) ==
  LET textBefore   == slice(docText, 0, from)
      selected == slice(docText, from, to)
      textAfter    == sliceFrom(docText, to)
      newFrom  == from - 1
  IN  [text |-> slice(textBefore, 0, -1) \o selected \o sliceFrom(textAfter, 1),
       anchor |-> newFrom, head |-> newFrom + Len(selected),
       case |-> "unflank"]

\* Line 57: the selection itself starts and ends with the marker.
isBounded(selected, m) ==
  Len(selected) >= 2 /\ selected[1] = m /\ selected[Len(selected)] = m

stripBounds_selectionDropped(docText, from, to) ==
  LET textBefore   == slice(docText, 0, from)
      textAfter    == sliceFrom(docText, to)
  IN  [text |-> textBefore \o textAfter,
       anchor |-> from, head |-> from, case |-> "strip"]

stripBounds_lastKept(docText, from, to) ==
  LET textBefore   == slice(docText, 0, from)
      selected == slice(docText, from, to)
      textAfter    == sliceFrom(docText, to)
      inner    == sliceFrom(selected, 1)
  IN  [text |-> textBefore \o inner \o textAfter,
       anchor |-> from, head |-> from + Len(inner), case |-> "strip"]

\* Lines 58-68: the markers inside the selection are removed.
stripBounds(docText, from, to) ==
  LET textBefore   == slice(docText, 0, from)
      selected == slice(docText, from, to)
      textAfter    == sliceFrom(docText, to)
      inner    == slice(selected, 1, -1)
  IN  [text |-> textBefore \o inner \o textAfter,
       anchor |-> from, head |-> from + Len(inner), case |-> "strip"]

wrapSelection_markersSelected(docText, from, to, m) ==
  LET textBefore   == slice(docText, 0, from)
      selected == slice(docText, from, to)
      textAfter    == sliceFrom(docText, to)
      wrapped  == <<m>> \o selected \o <<m>>
  IN  [text |-> textBefore \o wrapped \o textAfter,
       anchor |-> from, head |-> from + Len(wrapped), case |-> "wrap"]

\* Lines 71-81: the selection is wrapped.
wrapSelection(docText, from, to, m) ==
  LET textBefore   == slice(docText, 0, from)
      selected == slice(docText, from, to)
      textAfter    == sliceFrom(docText, to)
      wrapped  == <<m>> \o selected \o <<m>>
      newFrom  == from + 1
  IN  [text |-> textBefore \o wrapped \o textAfter,
       anchor |-> newFrom, head |-> newFrom + Len(selected), case |-> "wrap"]

toggleMarkersAroundSelection_boundsFirst(docText, from, to, m) ==
  IF from = to THEN insertPair(docText, from, m)
  ELSE IF isBounded(slice(docText, from, to), m)
       THEN stripBounds(docText, from, to)
  ELSE IF isFlanked(docText, from, to, m)
       THEN removeFlanking(docText, from, to)
  ELSE wrapSelection(docText, from, to, m)

\* The new document, the new selection and the branch taken, for the
\* selection [from, to) of the document.
toggleMarkersAroundSelection(docText, from, to, m) ==
  IF from = to THEN insertPair(docText, from, m)
  ELSE IF isFlanked(docText, from, to, m)
       THEN removeFlanking(docText, from, to)
  ELSE IF isBounded(slice(docText, from, to), m)
       THEN stripBounds(docText, from, to)
  ELSE wrapSelection(docText, from, to, m)

\* ------------------------------------------------------------------------
\* Specification of the toggle
\* ------------------------------------------------------------------------
MaxDocLen == 4

MaxToggles == 3

DocAlphabet == {marker, "a", "b"}

\* sel.from and sel.to of the main selection.
selFrom == Min(selection.anchor, selection.head)

selTo == Max(selection.anchor, selection.head)

InitToggle ==
  /\ doc \in StringsUpTo(DocAlphabet, MaxDocLen)
  /\ selection \in [anchor : 0..Len(doc), head : 0..Len(doc)]
  /\ toggled = <<>>
  /\ NoFunctionCall
  /\ NoTemplate
  /\ RunIdle
  /\ NoLayout

\* One call of the toggle on the view: the dispatch replaces the document
\* and sets the selection.
toggle ==
  /\ Len(toggled) < MaxToggles
  /\ LET r == toggleMarkersAroundSelection(doc, selFrom, selTo, marker)
     IN  /\ doc' = r.text
         /\ selection' = [anchor |-> r.anchor, head |-> r.head]
         /\ toggled' = Append(toggled, [doc |-> doc, from |-> selFrom,
                                        to |-> selTo, case |-> r.case])
  /\ UNCHANGED <<fnVars, templateVars, runVars, uiVars, paneVars, calls,
                 previous>>

NextToggle == toggle

SpecToggle == InitToggle /\ [][NextToggle]_vars

\* ------------------------------------------------------------------------
\* The four cases of the toggle
\* ------------------------------------------------------------------------
\* The document, selection and branch of the last toggle.
LastToggle == toggled[Len(toggled)]

\* The text without its character at position i, counted from 1.
RemoveAt(text, i) == SubSeq(text, 1, i - 1) \o SubSeq(text, i + 1, Len(text))

\* The character before offset f and the character at offset t, offsets
\* counted from 0, are both the delimiter.
Flanked(text, f, t) ==
  f > 0 /\ t < Len(text) /\ text[f] = marker /\ text[t + 1] = marker

\* The text between the offsets f and t has at least two characters and
\* begins and ends with the delimiter.
Bounded(text, f, t) ==
  t - f >= 2 /\ text[f + 1] = marker /\ text[t] = marker

\* C13: a toggle on an empty selection at offset from inserts two
\* delimiters there and puts the caret between them, at from + 1, whatever
\* the characters next to the caret are.
C13_EmptySelectionInsertsPair ==
  (toggled # <<>> /\ LastToggle.from = LastToggle.to) =>
    LET old == LastToggle
    IN  /\ doc = SubSeq(old.doc, 1, old.from) \o <<marker, marker>>
                   \o SubSeq(old.doc, old.from + 1, Len(old.doc))
        /\ selection.anchor = old.from + 1
        /\ selection.head = old.from + 1

\* C13 witness: the caret stood between two delimiters, and two more were
\* inserted.
C13_Witness ==
  /\ toggled # <<>>
  /\ LastToggle.from = LastToggle.to
  /\ Flanked(LastToggle.doc, LastToggle.from, LastToggle.to)
  /\ Len(doc) = Len(LastToggle.doc) + 2
  /\ selection.anchor = LastToggle.from + 1

\* The two flanking characters are gone, the rest of the text is as it
\* was, and the selection is [from - 1, to - 1).
FlankingRemoved ==
  LET old == LastToggle
  IN  /\ doc = RemoveAt(RemoveAt(old.doc, old.to + 1), old.from)
      /\ selFrom = old.from - 1
      /\ selTo = old.to - 1
      /\ SubSeq(doc, selFrom + 1, selTo) = SubSeq(old.doc, old.from + 1, old.to)

\* C14 (as stated): a toggle on a selection with from > 0, to < len and the
\* delimiter at from - 1 and at to removes those two characters, leaves the
\* others and selects [from - 1, to - 1).
C14_FlankedUnwrapped ==
  (toggled # <<>> /\ Flanked(LastToggle.doc, LastToggle.from, LastToggle.to))
    => FlankingRemoved

\* C14 (amended): the same for a non-empty selection; an empty selection
\* between two delimiters is the first case, which inserts a pair.
C14_NonEmptyFlankedUnwrapped ==
  (toggled # <<>> /\ LastToggle.from < LastToggle.to
     /\ Flanked(LastToggle.doc, LastToggle.from, LastToggle.to))
    => FlankingRemoved

\* C14 witness: a selected letter between two delimiters was unwrapped.
C14_Witness ==
  /\ toggled # <<>>
  /\ LastToggle.to = LastToggle.from + 1
  /\ LastToggle.doc[LastToggle.to] = "a"
  /\ Flanked(LastToggle.doc, LastToggle.from, LastToggle.to)
  /\ Len(doc) = Len(LastToggle.doc) - 2
  /\ SubSeq(doc, selFrom + 1, selTo) = <<"a">>

\* C15: a toggle on a selection of at least two characters that begins and
\* ends with the delimiter and is not flanked removes the first and the
\* last selected character, leaves the rest of the text and selects
\* [from, to - 2).
C15_BoundedStripped ==
  (toggled # <<>> /\ LastToggle.from < LastToggle.to
     /\ Bounded(LastToggle.doc, LastToggle.from, LastToggle.to)
     /\ ~Flanked(LastToggle.doc, LastToggle.from, LastToggle.to)) =>
    LET old == LastToggle
    IN  /\ doc = RemoveAt(RemoveAt(old.doc, old.to), old.from + 1)
        /\ selFrom = old.from
        /\ selTo = old.to - 2
        /\ SubSeq(doc, selFrom + 1, selTo)
             = SubSeq(old.doc, old.from + 2, old.to - 1)

\* C15 witness: the selection was delimiter, letter, delimiter with a
\* letter in front of it, and the letter is what is selected now.
C15_Witness ==
  /\ toggled # <<>>
  /\ LastToggle.from = 1 /\ LastToggle.to = 4
  /\ SubSeq(LastToggle.doc, 1, 4) = <<"b", marker, "a", marker>>
  /\ doc = <<"b", "a">>
  /\ selFrom = 1 /\ selTo = 2

\* C16: a toggle on a non-empty selection that is neither flanked nor
\* bounded puts one delimiter in front of and one behind the selected text
\* and selects [from + 1, to + 1), the text that was selected.
C16_DefaultWraps ==
  (toggled # <<>> /\ LastToggle.from < LastToggle.to
     /\ ~Flanked(LastToggle.doc, LastToggle.from, LastToggle.to)
     /\ ~Bounded(LastToggle.doc, LastToggle.from, LastToggle.to)) =>
    LET old == LastToggle
    IN  /\ doc = SubSeq(old.doc, 1, old.from) \o <<marker>>
                   \o SubSeq(old.doc, old.from + 1, old.to) \o <<marker>>
                   \o SubSeq(old.doc, old.to + 1, Len(old.doc))
        /\ selFrom = old.from + 1
        /\ selTo = old.to + 1
        /\ SubSeq(doc, selFrom + 1, selTo)
             = SubSeq(old.doc, old.from + 1, old.to)

\* C16 witness: the letter in the middle of three was wrapped.
C16_Witness ==
  /\ toggled # <<>>
  /\ LastToggle.doc = <<"a", "b", "a">>
  /\ LastToggle.from = 1 /\ LastToggle.to = 2
  /\ doc = <<"a", marker, "b", marker, "a">>
  /\ selFrom = 2 /\ selTo = 3

\* C17 (as stated): no document and non-empty selection in its range is
\* both flanked by the delimiter and bounded by it.
C17_FlankedExcludesBounded ==
  ~(/\ selFrom < selTo
    /\ Flanked(doc, selFrom, selTo)
    /\ Bounded(doc, selFrom, selTo))

\* C17 (amended): a non-empty selection can be flanked and bounded at once;
\* the toggle then takes the flanked case alone: it removes the two
\* flanking characters and selects [from - 1, to - 1).
C17_FlankedBeforeBounded ==
  (toggled # <<>> /\ LastToggle.from < LastToggle.to
     /\ Flanked(LastToggle.doc, LastToggle.from, LastToggle.to)
     /\ Bounded(LastToggle.doc, LastToggle.from, LastToggle.to)) =>
    /\ doc = RemoveAt(RemoveAt(LastToggle.doc, LastToggle.to + 1),
                      LastToggle.from)
    /\ selFrom = LastToggle.from - 1
    /\ selTo = LastToggle.to - 1

\* C17 witness: the two inner of four delimiters were selected; the outer
\* two were removed and the inner two are selected.
C17_Witness ==
  /\ toggled # <<>>
  /\ LastToggle.doc = <<marker, marker, marker, marker>>
  /\ LastToggle.from = 1 /\ LastToggle.to = 3
  /\ doc = <<marker, marker>>
  /\ selFrom = 0 /\ selTo = 2

\* C18: when a toggle wrapped a non-empty selection, the toggle that
\* follows it at once restores the text and the selection [from, to) the
\* first toggle started from.
C18_WrapRoundTrip ==
  LET n == Len(toggled)
  IN  (/\ n >= 2
       /\ toggled[n - 1].from < toggled[n - 1].to
       /\ ~Flanked(toggled[n - 1].doc, toggled[n - 1].from, toggled[n - 1].to)
       /\ ~Bounded(toggled[n - 1].doc, toggled[n - 1].from, toggled[n - 1].to))
      => /\ doc = toggled[n - 1].doc
         /\ selFrom = toggled[n - 1].from
         /\ selTo = toggled[n - 1].to

\* C18 witness: a selection next to a delimiter was wrapped, which put two
\* delimiters side by side, and the second toggle restored it.
C18_Witness ==
  /\ Len(toggled) = 2
  /\ toggled[1].doc = <<marker, "a", "b">>
  /\ toggled[1].from = 1 /\ toggled[1].to = 2
  /\ toggled[2].doc = <<marker, marker, "a", marker, "b">>
  /\ doc = toggled[1].doc
  /\ selFrom = 1 /\ selTo = 2

\* ------------------------------------------------------------------------
\* The handlers of FuzzerRequestPane (FuzzerLayout.tsx:499-818)
\* ------------------------------------------------------------------------
\* The markers created in one behaviour.
MaxUiMarkers == 2

\* The offsets the ends of a selection are drawn from.
SelectionOffsets == {0, 1, 2}

\* The run variables no handler of the pane but handleRunFuzzer writes.
engineVars == <<isRunning, words, idx, request, start, sendLog, cont,
                sampled, outcomes, clock, started, before>>

\* The same without the outcomes, of which the steps that settle an import
\* keep the one of the import settled last.
importFrame == <<isRunning, words, idx, request, start, sendLog, cont,
                 sampled, clock, started, before>>

\* What the user types into an editor of the pane, the word list or the
\* dialog.
EditTexts == {<<"a", "b">>}

WordlistEdits == {<<>>, <<"x">>}

CurlTexts == {<<>>, <<"c">>}

\* The requests cmd_curl_to_request resolves with.
ImportedRequests == RunTemplates

\* The handler named was invoked and has returned; the text is that of an
\* edit event of the three editors of the request.
handled(name, text) ==
  /\ caller' = name
  /\ pc' = "done"
  /\ uiInput' = text

\* Parse from cURL (line 685), Cancel and onClose (lines 797, 811).
setShowCurlImport ==
  /\ layoutReady
  /\ \E open \in BOOLEAN :
       /\ open => (~isLocked /\ ~isRunning)
       /\ ~open => showCurlImport
       /\ showCurlImport' = open
  /\ handled("setShowCurlImport", <<>>)
  /\ UNCHANGED <<fnVars, toggleVars, templateVars, engineVars, results,
                 idCounter, backendCall, isLocked, curlInput, paneVars,
                 calls, previous>>

\* onChange of the editor of the dialog (line 804).
setCurlInput ==
  /\ layoutReady
  /\ showCurlImport
  /\ \E text \in CurlTexts :
       /\ curlInput' = text
       /\ handled("setCurlInput", <<>>)
  /\ UNCHANGED <<fnVars, toggleVars, templateVars, engineVars, results,
                 idCounter, backendCall, isLocked, showCurlImport, paneVars,
                 calls, previous>>

\* handleImportCurl up to the await of invokeCmd (lines 518-523); the
\* Import button is disabled while the dialog text is blank (line 812).
handleImportCurl ==
  /\ layoutReady
  /\ showCurlImport
  /\ trim(curlInput) # <<>>
  /\ backendCall = NoCall
  /\ backendCall' = [command |-> "cmd_curl_to_request", curl |-> curlInput]
  /\ handled("handleImportCurl", <<>>)
  /\ UNCHANGED <<fnVars, toggleVars, templateVars, engineVars, results,
                 idCounter, isLocked, showCurlImport, curlInput, paneVars,
                 calls, previous>>

headersTextOf_oneLine(req) ==
  join([k \in 1..Len(req.headers) |->
          req.headers[k].name \o <<COLON, " ">> \o req.headers[k].value],
       " ")

\* request.headers.map(h => `${h.name}: ${h.value}`).join('\n'), line 527
headersTextOf(req) ==
  join([k \in 1..Len(req.headers) |->
          req.headers[k].name \o <<COLON, " ">> \o req.headers[k].value], NL)

curlToRequestResolves_markersKept ==
  /\ layoutReady
  /\ backendCall # NoCall
  /\ \E imported \in ImportedRequests :
       /\ draftRequest' = imported
       /\ rawHeaders' = headersTextOf(imported)
  /\ showCurlImport' = FALSE
  /\ curlInput' = <<>>
  /\ results' = <<>>
  /\ backendCall' = NoCall
  /\ outcomes' = <<[ok |-> TRUE]>>
  /\ handled("handleImportCurl", <<>>)
  /\ UNCHANGED <<fnVars, toggleVars, wordlist, importFrame, idCounter,
                 markers, isLocked, paneVars, calls, previous>>

\* invokeCmd resolves: lines 524-534.
curlToRequestResolves ==
  /\ layoutReady
  /\ backendCall # NoCall
  /\ \E imported \in ImportedRequests :
       /\ draftRequest' = imported
       /\ rawHeaders' = headersTextOf(imported)
  /\ showCurlImport' = FALSE
  /\ curlInput' = <<>>
  /\ markers' = <<>>
  /\ isLocked' = FALSE
  /\ results' = <<>>
  /\ backendCall' = NoCall
  /\ outcomes' = <<[ok |-> TRUE]>>
  /\ handled("handleImportCurl", <<>>)
  /\ UNCHANGED <<fnVars, toggleVars, wordlist, importFrame, idCounter,
                 paneVars, calls, previous>>

curlToRequestRejects_markersReset ==
  /\ layoutReady
  /\ backendCall # NoCall
  /\ backendCall' = NoCall
  /\ outcomes' = <<[ok |-> FALSE]>>
  /\ markers' = <<>>
  /\ isLocked' = FALSE
  /\ handled("handleImportCurl", <<>>)
  /\ UNCHANGED <<fnVars, toggleVars, draftRequest, rawHeaders, wordlist,
                 importFrame, results, idCounter, showCurlImport, curlInput,
                 paneVars, calls, previous>>

\* invokeCmd rejects: the catch block logs the error (lines 535-538).
curlToRequestRejects ==
  /\ layoutReady
  /\ backendCall # NoCall
  /\ backendCall' = NoCall
  /\ outcomes' = <<[ok |-> FALSE]>>
  /\ handled("handleImportCurl", <<>>)
  /\ UNCHANGED <<fnVars, toggleVars, templateVars, importFrame, results,
                 idCounter, isLocked, showCurlImport, curlInput, paneVars,
                 calls, previous>>

\* The document of the editor of a field: the text the field holds.
fieldText(field) ==
  CASE field = "url" -> draftRequest.url
    [] field = "headers" -> rawHeaders
    [] field = "body" -> bodyTextOf(draftRequest)
    [] OTHER -> <<>>

\* The FuzzerMarker of lines 566-572.
newMarker(id, field, from, to) ==
  [id |-> id, field |-> field, start |-> from, end |-> to,
   originalText |-> substring(fieldText(field), from, to)]

withMarker_prepended(ms, m) == <<m>> \o ms

\* [...markers, marker] (line 574)
withMarker(ms, m) == Append(ms, m)

\* handleMarkSelection (lines 547-576): focusedField is "none" while no
\* editor has had the focus; from and to are the main selection of the
\* editor that has it.
handleMarkSelection ==
  /\ layoutReady
  /\ draftRequest # NoRequest
  /\ ~isRunning
  /\ idCounter < MaxUiMarkers
  /\ \E focusedField \in {"url", "headers", "body", "none"} :
       \E from, to \in {k \in SelectionOffsets :
                          k <= Len(fieldText(focusedField))} :
         /\ from <= to
         /\ IF focusedField = "none" \/ from = to
            THEN UNCHANGED <<markers, isLocked, idCounter>>
            ELSE /\ markers' = withMarker(markers,
                                          newMarker(idCounter + 1,
                                                    focusedField, from, to))
                 /\ isLocked' = TRUE
                 /\ idCounter' = idCounter + 1
         /\ handled("handleMarkSelection", <<>>)
  /\ UNCHANGED <<fnVars, toggleVars, draftRequest, rawHeaders, wordlist,
                 engineVars, results, backendCall, showCurlImport,
                 curlInput, paneVars, calls, previous>>

handleClearMarkers_lockKept ==
  /\ layoutReady
  /\ isLocked
  /\ ~isRunning
  /\ markers' = <<>>
  /\ handled("handleClearMarkers", <<>>)
  /\ UNCHANGED <<fnVars, toggleVars, draftRequest, rawHeaders, wordlist,
                 engineVars, results, idCounter, backendCall, isLocked,
                 showCurlImport, curlInput, paneVars, calls, previous>>

\* handleClearMarkers (lines 578-581); the button is rendered while
\* isLocked (line 697).
handleClearMarkers ==
  /\ layoutReady
  /\ isLocked
  /\ ~isRunning
  /\ markers' = <<>>
  /\ isLocked' = FALSE
  /\ handled("handleClearMarkers", <<>>)
  /\ UNCHANGED <<fnVars, toggleVars, draftRequest, rawHeaders, wordlist,
                 engineVars, results, idCounter, backendCall,
                 showCurlImport, curlInput, paneVars, calls, previous>>

editApplies_whileLocked(locked) == TRUE

\* !isLocked && ... in the onChange of the three editors (lines 725, 743,
\* 761).
editApplies(locked) == ~locked

\* updateDraft (lines 541-545)
updateDraft(patched) ==
  IF draftRequest # NoRequest
  THEN draftRequest' = patched
  ELSE UNCHANGED draftRequest

\* onChange of the URL editor (line 725); the editors are rendered while
\* there is a draft request (line 714).
onChangeUrl ==
  /\ layoutReady
  /\ draftRequest # NoRequest
  /\ \E url \in EditTexts :
       /\ IF editApplies(isLocked)
          THEN updateDraft([draftRequest EXCEPT !.url = url])
          ELSE UNCHANGED draftRequest
       /\ handled("onChangeUrl", url)
  /\ UNCHANGED <<fnVars, toggleVars, rawHeaders, markers, wordlist,
                 engineVars, results, idCounter, backendCall, isLocked,
                 showCurlImport, curlInput, paneVars, calls, previous>>

\* onChange of the headers editor (line 743)
onChangeHeaders ==
  /\ layoutReady
  /\ draftRequest # NoRequest
  /\ \E text \in EditTexts :
       /\ IF editApplies(isLocked)
          THEN rawHeaders' = text
          ELSE UNCHANGED rawHeaders
       /\ handled("onChangeHeaders", text)
  /\ UNCHANGED <<fnVars, toggleVars, draftRequest, markers, wordlist,
                 engineVars, results, idCounter, backendCall, isLocked,
                 showCurlImport, curlInput, paneVars, calls, previous>>

\* onChange of the body editor (line 761)
onChangeBody ==
  /\ layoutReady
  /\ draftRequest # NoRequest
  /\ \E text \in EditTexts :
       /\ IF editApplies(isLocked)
          THEN updateDraft([draftRequest EXCEPT
                             !.body = withText(draftRequest.body, text)])
          ELSE UNCHANGED draftRequest
       /\ handled("onChangeBody", text)
  /\ UNCHANGED <<fnVars, toggleVars, rawHeaders, markers, wordlist,
                 engineVars, results, idCounter, backendCall, isLocked,
                 showCurlImport, curlInput, paneVars, calls, previous>>

\* onChange of the word-list editor (lines 782-790)
setWordlist ==
  /\ layoutReady
  /\ ~isRunning
  /\ \E text \in WordlistEdits :
       /\ wordlist' = text
       /\ handled("setWordlist", <<>>)
  /\ UNCHANGED <<fnVars, toggleVars, draftRequest, rawHeaders, markers,
                 engineVars, results, idCounter, backendCall, isLocked,
                 showCurlImport, curlInput, paneVars, calls, previous>>

\* ------------------------------------------------------------------------
\* Specification of the pane
\* ------------------------------------------------------------------------
\* The defaults of the atoms (lines 432-441) and of the state of the pane
\* (lines 508-516).
InitUI ==
  /\ NoFunctionCall
  /\ NoEditor
  /\ NoTemplate
  /\ RunIdle
  /\ NoLayout

NextUI ==
  \/ setShowCurlImport
  \/ setCurlInput
  \/ handleImportCurl
  \/ curlToRequestResolves
  \/ curlToRequestRejects
  \/ handleMarkSelection
  \/ handleClearMarkers
  \/ handleRunFuzzer
  \/ onChangeUrl
  \/ onChangeHeaders
  \/ onChangeBody
  \/ setWordlist

SpecUI == InitUI /\ [][NextUI]_vars

\* ------------------------------------------------------------------------
\* The lock
\* ------------------------------------------------------------------------
LockedIffMarked == isLocked <=> markers # <<>>

\* The lock goes on only with the first marker and off only with the
\* removal of all markers.
LockStep ==
  /\ (~isLocked /\ isLocked') => (markers = <<>> /\ Len(markers') = 1)
  /\ (isLocked /\ ~isLocked') => (markers # <<>> /\ markers' = <<>>)

\* C19: in every state the import, mark, clear and run handlers (and the
\* editors) reach, isLocked holds exactly when the marker store is not
\* empty; it becomes true only in a step that inserts the first marker and
\* false only in a step that empties a non-empty marker store.
C19_LockFollowsMarkers == []LockedIffMarked /\ [][LockStep]_vars

\* C19 witness: two markers were inserted, which locked the pane, and
\* Clear Markers has emptied the store and unlocked it.
C19_Witness ==
  /\ caller = "handleClearMarkers"
  /\ idCounter = 2
  /\ markers = <<>>
  /\ ~isLocked

EditHandlers == {"onChangeUrl", "onChangeHeaders", "onChangeBody"}

\* C20: an edit event of the url, headers or body editor in a state with
\* isLocked true leaves the draft url, the raw header text and the draft
\* body as they are; with isLocked false the event of each of the three
\* editors stores its text.
C20_LockedFieldsReadOnly ==
  [][caller' \in EditHandlers =>
       /\ isLocked =>
            /\ draftRequest'.url = draftRequest.url
            /\ rawHeaders' = rawHeaders
            /\ draftRequest'.body = draftRequest.body
       /\ (~isLocked /\ caller' = "onChangeUrl") => draftRequest'.url = uiInput'
       /\ (~isLocked /\ caller' = "onChangeHeaders") => rawHeaders' = uiInput'
       /\ (~isLocked /\ caller' = "onChangeBody")
            => draftRequest'.body.text = uiInput']_vars

\* C20 witness: while the pane was locked the body editor reported a text
\* that is not the draft body, and the draft body is still the imported one.
C20_Witness ==
  /\ caller = "onChangeBody"
  /\ isLocked
  /\ uiInput = <<"a", "b">>
  /\ "text" \in DOMAIN draftRequest.body
  /\ draftRequest.body.text = <<"t", "=", "F">>

\* ------------------------------------------------------------------------
\* The offsets of the stored markers
\* ------------------------------------------------------------------------
\* The text the pane holds for the field of a marker.
CurrentText(field) ==
  IF field = "headers" THEN rawHeaders
  ELSE IF field = "url" THEN draftRequest.url
  ELSE IF "text" \in DOMAIN draftRequest.body THEN draftRequest.body.text
  ELSE <<>>

\* C21: in every state the edits, mark-selection, clear-markers and the
\* cURL import reach, every stored marker has 0 <= start < end <= length of
\* the current text of its field, and that text from start to end is the
\* marker's originalText.
C21_MarkerOffsetsValid ==
  \A k \in 1..Len(markers) :
    /\ draftRequest # NoRequest
    /\ 0 <= markers[k].start
    /\ markers[k].start < markers[k].end
    /\ markers[k].end <= Len(CurrentText(markers[k].field))
    /\ SubSeq(CurrentText(markers[k].field), markers[k].start + 1,
              markers[k].end) = markers[k].originalText

\* C21 witness: the url was edited, then its first two characters and a
\* character of the header block were marked, and an edit event has
\* arrived since.
C21_Witness ==
  /\ caller = "onChangeUrl"
  /\ Len(markers) = 2
  /\ markers[1].field = "url" /\ markers[1].originalText = <<"a", "b">>
  /\ markers[2].field = "headers" /\ markers[2].start = 1
  /\ draftRequest.url = <<"a", "b">>


\* ------------------------------------------------------------------------
\* Specification of the attacks of FuzzerPane (Fuzzer/FuzzerPane.tsx)
\* ------------------------------------------------------------------------
\* activeRequest.headers.filter(h => h.enabled && h.name)
\*   .map(h => `${h.name}: ${h.value}`).join('\n')   (FuzzerPane.tsx:37-42)
paneHeadersTextOf(req) ==
  LET kept == SelectSeq(req.headers, LAMBDA h : h.enabled /\ h.name # <<>>)
  IN  join([k \in 1..Len(kept) |->
              kept[k].name \o <<COLON, " ">> \o kept[k].value], NL)

\* The pane as mounted on an active request: the header text comes from the
\* request, the word list is empty, nothing runs.
InitPane ==
  /\ NoFunctionCall
  /\ draftRequest \in RunTemplates
  /\ rawHeaders = paneHeadersTextOf(draftRequest)
  /\ markers = <<>>
  /\ wordlist = <<>>
  /\ words = <<>>
  /\ cont = TRUE
  /\ RunIdle
  /\ NoEditor
  /\ NoLayout

NextPane ==
  \/ onChangeWordlist
  \/ handleStart
  \/ fuzzResult
  \/ invokeSettles

SpecPane == InitPane /\ [][NextPane]_vars

\* C22: from the start of an attack on, during it and after its end, the
\* result log holds exactly the results delivered since that start, so
\* nothing of an earlier attack is left in it, and it is empty right after
\* the start.
C22_LogOfCurrentRunOnly ==
  delivered # <<>> => results = delivered[Len(delivered)]

\* A second attack has delivered a result and ended, after a first one
\* that had delivered other results.
C22_Witness ==
  /\ Len(delivered) = 2
  /\ Len(delivered[1]) = 2
  /\ Len(delivered[2]) = 1
  /\ delivered[2][1].status # delivered[1][1].status
  /\ results = delivered[2]
  /\ pendingRuns = 0

\* C23: at most one attack is between its start and its end, and while
\* one is, isRunning is true (so that Start is not offered).
C23_OneRunAtATime ==
  /\ pendingRuns <= 1
  /\ pendingRuns = 1 => isRunning

\* The second attack is running after the first has ended.
C23_Witness ==
  /\ Len(delivered) = 2
  /\ pendingRuns = 1
  /\ isRunning
  /\ delivered[1] # <<>>

\* C24: from the start to the end of a run of runFuzzerRequests, every
\* step leaves the result log as it is or appends entries to it: the log
\* before the step is a prefix of the log after it.
C24_LogAppendOnly ==
  [][(caller = "runFuzzerRequests" /\ pc = "await") =>
       /\ Len(results') = Len(results) \/ Len(results') = Len(results) + 1
       /\ \A k \in 1..Len(results) : results'[k] = results[k]]_vars

\* Two sends of one run have settled alike and left two entries.
C24_Witness ==
  /\ caller = "runFuzzerRequests"
  /\ Len(results) = 2
  /\ Len(outcomes) = 2
  /\ outcomes[1] = outcomes[2]
  /\ results[1].word # results[2].word

\* ------------------------------------------------------------------------
\* Specification of the word-list split as a pure function
\* ------------------------------------------------------------------------
MaxListLen == 5

\* The characters of a word-list text: a letter, a blank, the line break.
WordlistAlphabet == {"x", " ", NL}

InitWords ==
  /\ fnText \in StringsUpTo(WordlistAlphabet, MaxListLen)
  /\ fnMarkers = <<>>
  /\ fnWord = <<>>
  /\ fnOut = <<>>
  /\ fnPc = "input"
  /\ NoTemplate
  /\ RunIdle
  /\ NoEditor
  /\ NoLayout

CallWordsOfWordlist ==
  /\ fnPc = "input"
  /\ fnOut' = wordsOfWordlist(fnText)
  /\ fnPc' = "returned"
  /\ UNCHANGED <<fnText, fnMarkers, fnWord, templateVars, runVars,
                 toggleVars, uiVars, paneVars, calls, previous>>

NextWords == CallWordsOfWordlist

SpecWords == InitWords /\ [][NextWords]_vars

RECURSIVE RefWords(_)
\* The stripped lines of the text that are not empty, in line order.
RefWords(text) ==
  LET n == FirstIndex(text, NL)
      first == IF n = 0 THEN text ELSE SubSeq(text, 1, n - 1)
      word == IF Stripped(first) = <<>> THEN <<>> ELSE <<Stripped(first)>>
  IN  IF n = 0 THEN word
      ELSE word \o RefWords(SubSeq(text, n + 1, Len(text)))

\* C25: the words of a word-list text are its lines, each stripped of the
\* white space around it, without the lines that are then empty, in line
\* order and with repetitions.
C25_WordsAreTrimmedLines ==
  fnPc = "returned" => fnOut = RefWords(fnText)

\* A text with a padded line, a blank line and a repeated line.
C25_Witness ==
  /\ fnPc = "returned"
  /\ fnText = <<" ", "x", NL, NL, "x">>
  /\ fnOut = <<<<"x">>, <<"x">>>>

\* The workspaceId property of the options of the call in the test
\* (runFuzzer.test.ts:141); RunFuzzerRequestsOptions declares no such
\* property and runFuzzerRequests reads none.
OptionWorkspaceId == "ws-real"

\* C26: every request passed to sendRequest carries the workspace id given
\* in the options of the run, not the one of the template.
C26_WorkspaceIdOverridden ==
  caller = "runFuzzerRequests" =>
    \A i \in 1..Len(sendLog) : sendLog[i].workspaceId = OptionWorkspaceId

\* ------------------------------------------------------------------------
\* Specification of the header text made from a structured request
\* ------------------------------------------------------------------------
MaxHeaders == 2

\* HttpRequestHeader: named or unnamed, with or without value, enabled or
\* disabled.
HeaderRecords ==
  [name : {<<>>, <<"A">>}, value : {<<>>, <<"1">>}, enabled : BOOLEAN]

HeaderLists == UNION {[1..n -> HeaderRecords] : n \in 0..MaxHeaders}

InitHeaderText ==
  /\ fnText = <<>>
  /\ fnMarkers \in HeaderLists
  /\ fnWord = <<>>
  /\ fnOut = <<>>
  /\ fnPc = "input"
  /\ NoTemplate
  /\ RunIdle
  /\ NoEditor
  /\ NoLayout

\* handleImportCurl makes the text of the imported request.
CallHeadersTextOf ==
  /\ fnPc = "input"
  /\ fnOut' = headersTextOf([headers |-> fnMarkers])
  /\ fnPc' = "handleImportCurl"
  /\ UNCHANGED <<fnText, fnMarkers, fnWord, templateVars, runVars,
                 toggleVars, uiVars, paneVars, calls, previous>>

\* FuzzerPane makes the text of the active request.
CallPaneHeadersTextOf ==
  /\ fnPc = "input"
  /\ fnOut' = paneHeadersTextOf([headers |-> fnMarkers])
  /\ fnPc' = "FuzzerPane"
  /\ UNCHANGED <<fnText, fnMarkers, fnWord, templateVars, runVars,
                 toggleVars, uiVars, paneVars, calls, previous>>

NextHeaderText == CallHeadersTextOf \/ CallPaneHeadersTextOf

SpecHeaderText == InitHeaderText /\ [][NextHeaderText]_vars

RECURSIVE EnabledLines(_)
\* The lines `name: value` of the enabled headers of the list, in its
\* order, each but the last followed by a line break.
EnabledLines(headers) ==
  IF headers = <<>> THEN <<>>
  ELSE LET h == Head(headers)
           rest == EnabledLines(Tail(headers))
           line == h.name \o <<COLON, " ">> \o h.value
       IN  IF ~h.enabled THEN rest
           ELSE IF \E k \in 1..Len(Tail(headers)) : Tail(headers)[k].enabled
                THEN line \o <<NL>> \o rest
                ELSE line

\* C27: the header text made from a structured request is the lines
\* `name: value` of its enabled headers, in order, joined by line breaks;
\* a disabled header has no line.
C27_TextOfEnabledHeaders ==
  fnPc \in {"handleImportCurl", "FuzzerPane"} =>
    fnOut = EnabledLines(fnMarkers)

\* C28: sendRequest is called once for each word reached, never again for
\* a word that has its result; the result of a word whose send resolved
\* has the status of the response, whatever it is, its contentLength or 0
\* when the response has none, and its error or none when the response has
\* none; a run that was never told to stop ends only after the last word.
C28_UniformOutcomes ==
  EngineRun =>
    /\ Len(sendLog) = Len(results) + (IF pc = "await" THEN 1 ELSE 0)
    /\ Len(outcomes) = Len(results)
    /\ (pc = "done" /\ \A k \in 1..Len(sampled) : sampled[k]) =>
         Len(results) = Len(words)
    /\ \A i \in 1..Len(results) :
         outcomes[i].ok =>
           LET response == outcomes[i].response
           IN  /\ results[i].word = words[i]
               /\ results[i].status = response.status
               /\ results[i].contentLength =
                    (IF "contentLength" \in DOMAIN response
                     THEN response.contentLength ELSE 0)
               /\ IF "error" \in DOMAIN response
                  THEN /\ "error" \in DOMAIN results[i]
                       /\ results[i].error = response.error
                  ELSE "error" \notin DOMAIN results[i]

\* The first send resolved with status 500, an error and no contentLength,
\* and the run went on to the second word, whose send resolved with 404.
C28_Witness ==
  /\ EngineRun
  /\ pc = "done"
  /\ Len(results) = 2
  /\ Len(sendLog) = 2
  /\ results[1].status = 500
  /\ results[1].error = "upstream"
  /\ results[1].contentLength = 0
  /\ results[2].status = 404
  /\ "error" \notin DOMAIN results[2]

\* The positions in the call log of the calls of the callback named.
CallsOf(fn) == {p \in 1..Len(calls) : calls[p].fn = fn}

\* The position in the call log of the i-th call of sendRequest.
SendAt(i) ==
  CHOOSE p \in CallsOf("sendRequest") :
    Cardinality({q \in CallsOf("sendRequest") : q <= p}) = i

\* C29: the call before each sendRequest is a nowPerf, and the generateId
\* calls of the decoded headers of the request come right before that one;
\* when the send resolved, the call after it is a nowPerf as well, nowPerf
\* is called at no other place, and the elapsed of the result is the second
\* reading minus the first, which is not negative.
C29_ElapsedAroundDispatch ==
  EngineRun =>
    /\ Cardinality(CallsOf("sendRequest")) = Len(sendLog)
    /\ Cardinality(CallsOf("nowPerf")) =
         Len(sendLog) + Cardinality({i \in 1..Len(outcomes) : outcomes[i].ok})
    /\ \A i \in 1..Len(sendLog) :
         LET p == SendAt(i)
         IN  /\ p > 1 + Len(sendLog[i].headers)
             /\ calls[p - 1].fn = "nowPerf"
             /\ \A j \in 1..Len(sendLog[i].headers) :
                  calls[p - 1 - j].fn = "generateId"
             /\ (i <= Len(outcomes) /\ outcomes[i].ok) =>
                  /\ calls[p + 1].fn = "nowPerf"
                  /\ calls[p + 1].at >= calls[p - 1].at
                  /\ results[i].elapsed = calls[p + 1].at - calls[p - 1].at
                  /\ results[i].elapsed >= 0

\* The second send, of a request with a decoded header, resolved later than
\* it was made, the first one having taken time too.
C29_Witness ==
  /\ EngineRun
  /\ Len(results) = 2
  /\ outcomes[1].ok
  /\ outcomes[2].ok
  /\ results[1].elapsed = 1
  /\ results[2].elapsed = 1
  /\ Len(sendLog[2].headers) = 1

C31_MarkersAppendedOrCleared ==
  [][/\ \/ markers' = markers
        \/ /\ caller' = "handleMarkSelection"
           /\ Len(markers') = Len(markers) + 1
           /\ SubSeq(markers', 1, Len(markers)) = markers
        \/ /\ caller' \in {"handleClearMarkers", "handleImportCurl"}
           /\ markers' = <<>>
     /\ caller' = "handleRunFuzzer" => markers' = markers]_vars

\* A run has been made with two markers in the store, the second one
\* marked after the first.
C31_Witness ==
  /\ caller = "handleRunFuzzer"
  /\ started
  /\ Len(markers) = 2
  /\ markers[1].id = 1
  /\ markers[2].id = 2

\* ------------------------------------------------------------------------
\* Specification of two runs of the engine, one after the other
\* ------------------------------------------------------------------------
\* After a run the caller sets up the collaborators as they were before it
\* (a fresh result log, id generator, clocks and mocks, as each test of
\* runFuzzer.test.ts does) and keeps what the run has sent and logged.
startOver ==
  /\ pc = "done"
  /\ caller = "runFuzzerRequests"
  /\ previous = NoRun
  /\ previous' = [sendLog |-> sendLog, results |-> results,
                  outcomes |-> outcomes, sampled |-> sampled,
                  calls |-> calls, ended |-> TRUE]
  /\ results' = <<>>
  /\ sendLog' = <<>>
  /\ outcomes' = <<>>
  /\ sampled' = <<>>
  /\ calls' = <<>>
  /\ idCounter' = 0
  /\ clock' = 0
  /\ \E returned \in BOOLEAN : cont' = returned
  /\ pc' = "idle"
  /\ caller' = "none"
  /\ UNCHANGED <<fnVars, toggleVars, uiVars, templateVars, isRunning, words,
                 idx, request, start, started, backendCall, before,
                 paneVars>>

\* The marker lists of the two runs: none, one of the url, one of the
\* header text with one of the body.
TwiceMarkerLists ==
  {<<>>, <<SpanMarker(1, "url", 2, 3)>>,
   <<SpanMarker(4, "headers", 2, 3), SpanMarker(3, "body", 2, 3)>>}

\* The word lists of the two runs.
TwiceWordLists ==
  {<<<<"x">>>>, <<<<"x">>, <<"y", "z">>>>, <<<<"y", "z">>, <<"x">>>>}

InitTwice ==
  /\ NoFunctionCall
  /\ draftRequest \in RunTemplates
  /\ rawHeaders \in RunRawHeaders
  /\ markers \in TwiceMarkerLists
  /\ words \in TwiceWordLists
  /\ wordlist = <<>>
  /\ cont \in BOOLEAN
  /\ RunIdle
  /\ NoEditor
  /\ NoLayout

NextTwice ==
  \/ runFuzzerRequests
  \/ sendRequestResolves
  \/ sendRequestRejects
  \/ shouldContinueChanges
  \/ startOver

SpecTwice == InitTwice /\ [][NextTwice]_vars

\* The first list is the beginning of the second.
IsPrefix(a, b) == Len(a) <= Len(b) /\ SubSeq(b, 1, Len(a)) = a

\* The calls of one callback in a call log, with the times they read.
Readings(log, fn) == SelectSeq(log, LAMBDA c : c.fn = fn)

\* So far the collaborators of the second run have behaved as they did in
\* the first one: the sends have settled alike, shouldContinue has returned
\* the same values, and nowPerf and now have read the same times.
SameCollaborators ==
  /\ IsPrefix(outcomes, previous.outcomes)
  /\ IsPrefix(sampled, previous.sampled)
  /\ IsPrefix(Readings(calls, "nowPerf"), Readings(previous.calls, "nowPerf"))
  /\ IsPrefix(Readings(calls, "now"), Readings(previous.calls, "now"))

\* C32: a second run of the engine on the same template, markers, raw
\* header text and words, whose collaborators behave as in the first run,
\* sends the same requests and logs the same results as the first run did,
\* at every point of the run and at its end.
C32_RunsRepeatable ==
  (previous.ended /\ caller = "runFuzzerRequests" /\ SameCollaborators) =>
    /\ IsPrefix(sendLog, previous.sendLog)
    /\ IsPrefix(results, previous.results)
    /\ pc = "done" => /\ sendLog = previous.sendLog
                      /\ results = previous.results

\* The second run has ended like the first, after two sends of which the
\* first took time and the second failed.
C32_Witness ==
  /\ previous.ended
  /\ caller = "runFuzzerRequests"
  /\ pc = "done"
  /\ SameCollaborators
  /\ Len(results) = 2
  /\ results[1].elapsed = 1
  /\ ~outcomes[2].ok
  /\ sendLog[2].url # sendLog[1].url

\* ------------------------------------------------------------------------
\* Specification of the header text made and decoded again
\* ------------------------------------------------------------------------
\* Header names: empty, plain, with a colon, padded.
RoundTripNames == {<<>>, <<"a">>, <<"a", COLON>>, <<" ", "a">>}

\* Header values: empty, plain, with colons, padded, of two lines.
RoundTripValues ==
  {<<>>, <<"1">>, <<"1", COLON, "2">>, <<COLON>>, <<"1", " ">>,
   <<"1", NL, "2">>}

RoundTripHeaders ==
  [name : RoundTripNames, value : RoundTripValues, enabled : BOOLEAN]

InitRoundTrip ==
  /\ fnText = <<>>
  /\ fnMarkers \in UNION {[1..n -> RoundTripHeaders] : n \in 0..MaxHeaders}
  /\ fnWord = <<>>
  /\ fnOut = <<>>
  /\ fnPc = "input"
  /\ NoTemplate
  /\ RunIdle
  /\ NoEditor
  /\ NoLayout

\* The import makes the raw header text of the request (line 527).
CallEncode ==
  /\ fnPc = "input"
  /\ fnText' = headersTextOf([headers |-> fnMarkers])
  /\ fnPc' = "encoded"
  /\ UNCHANGED <<fnMarkers, fnWord, fnOut, templateVars, runVars,
                 toggleVars, uiVars, paneVars, calls, previous>>

\* A run decodes the raw header text (runFuzzer.ts:88).
CallDecode ==
  /\ fnPc = "encoded"
  /\ fnOut' = parseHeaders(fnText, 0)
  /\ fnPc' = "returned"
  /\ UNCHANGED <<fnText, fnMarkers, fnWord, templateVars, runVars,
                 toggleVars, uiVars, paneVars, calls, previous>>

NextRoundTrip == CallEncode \/ CallDecode

SpecRoundTrip == InitRoundTrip /\ [][NextRoundTrip]_vars

\* The text has no white space at its ends.
NoPadding(s) ==
  s = <<>> \/ (s[1] \notin WhiteSpace /\ s[Len(s)] \notin WhiteSpace)

\* The text does not hold the character.
Without(s, c) == \A k \in 1..Len(s) : s[k] # c

\* An enabled header whose name is not empty, not padded and without colon
\* and line break, and whose value is not padded and without line break.
RoundTripHeader(h) ==
  /\ h.enabled
  /\ h.name # <<>>
  /\ NoPadding(h.name)
  /\ Without(h.name, COLON)
  /\ Without(h.name, NL)
  /\ NoPadding(h.value)
  /\ Without(h.value, NL)

\* C33: the headers decoded from the text made of a list of such headers
\* have the names and values of the list, in its order.
C33_HeaderRoundTrip ==
  (fnPc = "returned" /\ \A k \in 1..Len(fnMarkers) : RoundTripHeader(fnMarkers[k])) =>
    /\ Len(fnOut) = Len(fnMarkers)
    /\ \A k \in 1..Len(fnMarkers) :
         /\ fnOut[k].name = fnMarkers[k].name
         /\ fnOut[k].value = fnMarkers[k].value

\* Two headers, the value of the first with a colon inside, the value of
\* the second a colon only, have come back.
C33_Witness ==
  /\ fnPc = "returned"
  /\ Len(fnMarkers) = 2
  /\ RoundTripHeader(fnMarkers[1])
  /\ RoundTripHeader(fnMarkers[2])
  /\ fnMarkers[1].value = <<"1", COLON, "2">>
  /\ fnMarkers[2].value = <<COLON>>
  /\ fnOut[1].value = <<"1", COLON, "2">>
  /\ fnOut[2].value = <<COLON>>

\* C34: no two markers in the store are of the same field with spans that
\* overlap or coincide.
C34_StoredMarkersDisjoint ==
  \A j, k \in 1..Len(markers) :
    (j < k /\ markers[j].field = markers[k].field) =>
      \/ markers[j].end <= markers[k].start
      \/ markers[k].end <= markers[j].start

\* ------------------------------------------------------------------------
\* Specification of the runs in which every send and invoke settles
\* ------------------------------------------------------------------------
\* A pending sendRequest resolves or rejects in the end, and so does a
\* pending invoke of cmd_run_fuzz_attack.
InitLive ==
  /\ NoFunctionCall
  /\ draftRequest = RunTemplate([text |-> <<"t", "=", "F">>, form |-> "f"])
  /\ rawHeaders = <<"X", COLON, "F">>
  /\ markers = <<SpanMarker(1, "url", 2, 3)>>
  /\ \/ words = <<<<"x">>, <<"y", "z">>>> /\ wordlist = <<>>
     \/ words = <<>> /\ wordlist = <<"x">>
  /\ cont \in BOOLEAN
  /\ RunIdle
  /\ NoEditor
  /\ NoLayout

SpecLive ==
  /\ InitLive
  /\ [][Next]_vars
  /\ WF_vars(sendRequestResolves \/ sendRequestRejects)
  /\ WF_vars(invokeSettles)

\* C35: a run of the engine that waits for a send ends, isRunning once true
\* becomes false again, and handleRunFuzzer returns with isRunning false.
C35_RunsEndAndRelease ==
  /\ (caller = "runFuzzerRequests" /\ pc = "await") ~>
       (caller = "runFuzzerRequests" /\ pc = "done")
  /\ isRunning ~> ~isRunning
  /\ [](caller = "handleRunFuzzer" => ~isRunning)

\* The invoke of an attack was rejected and isRunning is false again.
C35_Witness ==
  /\ caller = "handleStart"
  /\ started
  /\ pendingRuns = 0
  /\ Len(outcomes) = 1
  /\ ~outcomes[1].ok
  /\ ~isRunning

\* ------------------------------------------------------------------------
\* The request handleRunFuzzer builds in its loop (FuzzerLayout.tsx:592-634)
\* ------------------------------------------------------------------------
markersByField_unsorted(ms, field) == SelectSeq(ms, LAMBDA m : m.field = field)

\* markers.filter(m => m.field === field).sort((a, b) => b.start - a.start)
markersByField(ms, field) ==
  SortDesc(SelectSeq(ms, LAMBDA m : m.field = field))

RECURSIVE inlineReplaced(_, _, _)
\* for (const marker of markersByField.url) { urlText = urlText.substring(0,
\* marker.start) + word + urlText.substring(marker.end); } and the same
\* loops for the body and the header text (lines 610-618).
inlineReplaced(text, ordered, word) ==
  IF ordered = <<>> THEN text
  ELSE inlineReplaced(substring(text, 0, Head(ordered).start) \o word
                        \o substringFrom(text, Head(ordered).end),
                      Tail(ordered), word)

\* request.body?.text || ''
inlineBodyText(req) ==
  IF "text" \in DOMAIN req.body /\ req.body.text # <<>>
  THEN req.body.text ELSE <<>>

\* What the callback of .map returns for a line without colon or name.
NullHeader == [null |-> TRUE]

\* The callback of headersText.split('\n').map (lines 625-631), without
\* the id.
inlineHeaderOfLine(line) ==
  LET parts == split(line, COLON)
  IN  IF Len(parts) < 2 THEN NullHeader
      ELSE IF trim(parts[1]) = <<>> THEN NullHeader
      ELSE [name |-> trim(parts[1]),
            value |-> trim(join(SubSeq(parts, 2, Len(parts)), COLON)),
            enabled |-> TRUE]

\* newHeaders: the records of the lines, without the nulls, with the ids
\* generateId() returned in line order.
inlineHeaders(headersText, lastId) ==
  LET lines  == split(headersText, NL)
      mapped == [k \in 1..Len(lines) |-> inlineHeaderOfLine(lines[k])]
      kept   == SelectSeq(mapped, LAMBDA h : h # NullHeader)
  IN  [k \in 1..Len(kept) |->
         [name |-> kept[k].name, value |-> kept[k].value,
          enabled |-> kept[k].enabled, id |-> lastId + k]]

\* The request of one iteration of the loop of handleRunFuzzer.
inlineRequest(draft, ms, raw, word, lastId) ==
  LET bodyText    == inlineReplaced(inlineBodyText(draft),
                                    markersByField(ms, "body"), word)
      urlText     == inlineReplaced(draft.url, markersByField(ms, "url"), word)
      headersText == inlineReplaced(raw, markersByField(ms, "headers"), word)
  IN  [draft EXCEPT
         !.body = [k \in DOMAIN draft.body \cup {"text"} |->
                     IF k = "text" THEN bodyText ELSE draft.body[k]],
         !.url = urlText,
         !.headers = inlineHeaders(headersText, lastId)]

\* The loop body of handleRunFuzzer is applied to the first word.
CallInlineRequest ==
  /\ fnPc = "unused"
  /\ fnOut' = inlineRequest(draftRequest, markers, rawHeaders, words[1], 0)
  /\ fnPc' = "returned"
  /\ UNCHANGED <<fnText, fnMarkers, fnWord, templateVars, runVars,
                 toggleVars, uiVars, paneVars, calls, previous>>

NextInline == runFuzzerRequests \/ CallInlineRequest

SpecInline == InitBuild /\ [][NextInline]_vars

\* C37: for the same template, markers, raw header text and word, the
\* request built by the loop body of handleRunFuzzer has the url, the body
\* text and the names, values and enabled flags of the headers of the
\* request runFuzzerRequests passes to sendRequest.
C37_InlineEqualsEngine ==
  (fnPc = "returned" /\ caller = "runFuzzerRequests") =>
    /\ Len(sendLog) = 1
    /\ fnOut.url = sendLog[1].url
    /\ fnOut.body.text = sendLog[1].body.text
    /\ Len(fnOut.headers) = Len(sendLog[1].headers)
    /\ \A k \in 1..Len(fnOut.headers) :
         /\ fnOut.headers[k].name = sendLog[1].headers[k].name
         /\ fnOut.headers[k].value = sendLog[1].headers[k].value
         /\ fnOut.headers[k].enabled = sendLog[1].headers[k].enabled

\* Two markers of the header text, stored in ascending order, were
\* replaced in a text of two lines, and both constructions gave two
\* headers; the template had no body text.
C37_Witness ==
  /\ fnPc = "returned"
  /\ caller = "runFuzzerRequests"
  /\ Len(markers) = 2
  /\ markers[1].field = "headers"
  /\ markers[2].field = "headers"
  /\ markers[1].start < markers[2].start
  /\ "text" \notin DOMAIN draftRequest.body
  /\ Len(fnOut.headers) = 2
  /\ Len(sendLog[1].headers) = 2

\* ------------------------------------------------------------------------
\* What a sequence of toggles does to the buffer
\* ------------------------------------------------------------------------
\* The text with every occurrence of the delimiter deleted.
Undelimited(text) == SelectSeq(text, LAMBDA c : c # marker)

\* The document after the toggle number k of the history.
DocAfter(k) == IF k = Len(toggled) THEN doc ELSE toggled[k + 1].doc

\* C38: every toggle makes the buffer two characters longer (empty
\* selection, or a selection neither flanked nor bounded by delimiters) or
\* two characters shorter (flanked or bounded selection), and after any
\* sequence of toggles the buffer without its delimiters is what it was
\* before the first toggle.
C38_TogglesMoveOnlyDelimiters ==
  \A k \in 1..Len(toggled) :
    LET old == toggled[k]
        grows == \/ old.from = old.to
                 \/ /\ ~Flanked(old.doc, old.from, old.to)
                    /\ ~Bounded(old.doc, old.from, old.to)
    IN  /\ Len(DocAfter(k)) - Len(old.doc) = IF grows THEN 2 ELSE 0 - 2
        /\ Undelimited(DocAfter(k)) = Undelimited(toggled[1].doc)

\* Three toggles have run on a buffer that holds other characters: a
\* selection that begins and ends with the delimiter and holds another
\* character was stripped, the rest was wrapped, and the wrapped selection
\* was unwrapped again.
C38_Witness ==
  /\ Len(toggled) = 3
  /\ Bounded(toggled[1].doc, toggled[1].from, toggled[1].to)
  /\ ~Flanked(toggled[1].doc, toggled[1].from, toggled[1].to)
  /\ toggled[1].to - toggled[1].from >= 3
  /\ Len(toggled[2].doc) = Len(toggled[1].doc) - 2
  /\ Len(toggled[3].doc) = Len(toggled[2].doc) + 2
  /\ Len(doc) = Len(toggled[3].doc) - 2
  /\ Undelimited(doc) # <<>>

\* ------------------------------------------------------------------------
\* The two ends of a cURL import
\* ------------------------------------------------------------------------
\* The step settles the pending cmd_curl_to_request.
ImportSettles == backendCall # NoCall /\ backendCall' = NoCall

\* C39: the step in which a pending import is rejected leaves the draft
\* request, the raw header text, the markers, the lock and the results as
\* they were; the step in which it resolves puts the imported request and
\* the text of its headers in place and empties the markers, the lock and
\* the results, all at once.
C39_ImportAllOrNothing ==
  [][ImportSettles =>
       IF outcomes'[1].ok
       THEN /\ draftRequest' \in ImportedRequests
            /\ rawHeaders' = headersTextOf(draftRequest')
            /\ markers' = <<>>
            /\ isLocked' = FALSE
            /\ results' = <<>>
       ELSE UNCHANGED <<draftRequest, rawHeaders, markers, isLocked,
                        results>>]_vars

\* An import was rejected while a draft with markers was locked; the
\* dialog is still open with its text.
C39_Witness ==
  /\ caller = "handleImportCurl"
  /\ backendCall = NoCall
  /\ outcomes = <<[ok |-> FALSE]>>
  /\ draftRequest # NoRequest
  /\ markers # <<>>
  /\ isLocked
  /\ showCurlImport
  /\ curlInput # <<>>
====
